---------------------------- MODULE Spec2Model ----------------------------
(***************************************************************************)
(* Order store (OrderManager) of the trading platform, with the two sinks *)
(* it writes to (DBWriter's bounded write queue, Logger's bounded message *)
(* queue) and the update callbacks it fans out to.                        *)
(*                                                                         *)
(* Every public method of OrderManager is a sequence of steps; a step     *)
(* ends where the method has to acquire a mutex that another thread may   *)
(* hold across steps (map_mutex_, an OrderEntry's mutex).  The sinks'     *)
(* queue mutexes and callback_mutex_ are leaf locks taken and released    *)
(* inside one step.                                                        *)
(*                                                                         *)
(* Strings are kept as strings, except client order ids, which are token  *)
(* sequences: the caller's "order1" is <<"order1">>, the generated        *)
(* "ORDER_<ms>_<counter>" is <<"ORDER", ms, counter>>, "" is <<>>.        *)
(* Amounts are integers (units of the smallest amount).  The two          *)
(* timestamps of an Order are not modelled.                               *)
(***************************************************************************)
EXTENDS Integers, Sequences, FiniteSets, TLC

VARIABLES
  heap,                      \* the OrderEntry objects, by address
  orders_by_client_id_,      \* primary index: client order id -> address
  exchange_id_to_client_id_, \* secondary index: exchange id -> client id
  map_mutex_,                \* holder of map_mutex_, or NoThread
  order_counter_,            \* the atomic id counter
  update_callbacks_,         \* registered callbacks, in registration order
  cb_log,                    \* what the callbacks were invoked with, in order
  write_queue_,              \* DBWriter's queue of order snapshots
  db_dropped_count_,         \* DBWriter::dropped_count_
  message_queue_,            \* Logger's queue of messages
  log_dropped_count_,        \* Logger::dropped_count_
  pc,                        \* each thread's position
  call,                      \* each thread's current call and its arguments
  entry,                     \* each thread's OrderEntry* (an address)
  todo,                      \* each thread's iteration over the primary index
  quiet,                     \* history: no mutation was in flight when the
                             \* thread's get_active_orders / get_all_orders
                             \* took map_mutex_
  ret,                       \* each thread's result
  calls,                     \* number of calls made so far
  worker,                    \* the queue worker under study: DBWriter or Logger
  running_,                  \* the worker's running_ flag
  queue_mutex_,              \* holder of the worker's queue_mutex_
  wpc,                       \* position of the worker's consumer thread
  hand,                      \* the item the consumer has popped
  processed,                 \* the items the consumer has processed, in order
  consumers,                 \* number of consumer threads that have not exited
  owner,                     \* position of the thread that starts and stops
  submitted,                 \* number of items passed to write_order / log
  at_stop,                   \* history: the items accepted before stop was
                             \* called on the running worker
  access_token_,             \* ExecutionGateway's cached bearer token
  token_expiry_,             \* instant until which the cached token is used
  clock,                     \* steady_clock, in seconds
  gpc,                       \* position of the thread calling the gateway
  endpoint,                  \* endpoint of the gateway call in progress
  attempt,                   \* execute_with_retry's loop counter
  response,                  \* execute_with_retry's response
  result,                    \* the ExecutionResult of the gateway call
  now,                       \* get_access_token's reading of the clock
  bearer,                    \* token in the request's Authorization header
  trace,                     \* history: the transport's responses to the
                             \* call's attempts, in order
  backoff_ms,                \* execute_with_retry's backoff_ms
  delays,                    \* history: the call's sleeps, each the attempt
                             \* it came after
  exchanges,                 \* history: credential exchanges of the call
  granted,                   \* history: the last successful credential
                             \* exchange, its clock reading and lifetime
  refused,                   \* history: a credential exchange of the call
                             \* failed and its request was sent all the same
  main,                      \* the place-order flow of main()
  instants                   \* history: per thread, the contents the store
                             \* has had since the thread's running call of
                             \* get_active_orders or get_all_orders began

vars == <<heap, orders_by_client_id_, exchange_id_to_client_id_, map_mutex_,
          order_counter_, update_callbacks_, cb_log, write_queue_,
          db_dropped_count_, message_queue_, log_dropped_count_,
          pc, call, entry, todo, quiet, ret, calls,
          worker, running_, queue_mutex_, wpc, hand, processed, consumers,
          owner, submitted, at_stop,
          access_token_, token_expiry_, clock, gpc, endpoint, attempt,
          response, result, now, bearer, trace, backoff_ms, delays, exchanges,
          granted, refused, main, instants>>

gatewayVars ==
  <<access_token_, token_expiry_, clock, gpc, endpoint, attempt, response,
    result, now, bearer, trace, backoff_ms, delays, exchanges, granted,
    refused>>

workerVars ==
  <<worker, running_, queue_mutex_, wpc, hand, processed, consumers, owner,
    submitted, at_stop>>

storeVars == <<heap, orders_by_client_id_, exchange_id_to_client_id_>>
sinkVars ==
  <<write_queue_, db_dropped_count_, message_queue_, log_dropped_count_>>

---------------------------------------------------------------------------
(* Bounds and input domains *)

MaxCalls == 3
QueueCapacity == 2
LogCapacity == 1

Threads == {"t1", "t2"}
NoThread == "none"

MaxSubmits == 3
Workers == {"DBWriter", "Logger"}
NoItem == <<>>
NoStop == [called |-> FALSE, items |-> {}, pending |-> {}]

NoId == <<>>
ExplicitIds == {<<"order1">>}
Millis == {0}

ExchangeIds == {"EX1", "EX2"}
ErrorMsgs == {"err1", "err2"}
Callbacks == {"cb1", "cb2"}

OrderStates == {"PENDING", "OPEN", "PARTIAL", "FILLED", "CANCELED", "REJECTED"}

NoRequest ==
  [symbol |-> "", side |-> "BUY", price |-> 0, amount |-> 0, type |-> "LIMIT",
   client_order_id |-> NoId]

Payloads ==
  { [symbol |-> "BTC-PERPETUAL", side |-> "BUY", price |-> 50000, amount |-> 1,
     type |-> "LIMIT"],
    [symbol |-> "ETH-PERPETUAL", side |-> "SELL", price |-> 3000, amount |-> 2,
     type |-> "LIMIT"] }

Requests ==
  { [symbol |-> p.symbol, side |-> p.side, price |-> p.price,
     amount |-> p.amount, type |-> p.type, client_order_id |-> id] :
       p \in Payloads, id \in {NoId} \cup ExplicitIds }

---------------------------------------------------------------------------
(* Order *)

Order(client_id, request) ==
  [client_order_id |-> client_id, exchange_order_id |-> "", request |-> request,
   state |-> "PENDING", filled_amount |-> 0, error_message |-> ""]

DefaultOrder == Order(NoId, NoRequest)

is_active(order) == order.state \in {"OPEN", "PARTIAL"}

is_terminal(order) == order.state \in {"FILLED", "CANCELED", "REJECTED"}

---------------------------------------------------------------------------
(* Small helpers *)

Put(f, k, v) == [x \in DOMAIN f \cup {k} |-> IF x = k THEN v ELSE f[x]]

EmptyMap == [x \in {} |-> 0]

NoCall ==
  [op |-> "none", request |-> NoRequest, id |-> NoId, new_state |-> "PENDING",
   exchange_order_id |-> "", filled_amount |-> 0, error_msg |-> "",
   callback |-> ""]

NoRet == [ok |-> FALSE, id |-> NoId, order |-> DefaultOrder, orders |-> <<>>]

NoEntry == 0

---------------------------------------------------------------------------
(* The sinks and the callbacks, as OrderManager calls them.  OrderManager  *)
(* is constructed with a Logger and a DBWriter (logger_ and db_writer_ are *)
(* not null), as in main() and in the tests.                               *)

\* Logger::log with a level at or above min_level_: the message is queued,
\* or dropped and counted when the queue holds queue_capacity_ messages.
log(level, message, id) ==
  IF Len(message_queue_) >= LogCapacity
    THEN /\ log_dropped_count_' = log_dropped_count_ + 1
         /\ UNCHANGED message_queue_
    ELSE /\ message_queue_' = Append(message_queue_, <<level, message, id>>)
         /\ UNCHANGED log_dropped_count_

\* a write_order that drops only when the queue is beyond its capacity
write_order_PastCapacity(order) ==
  IF Len(write_queue_) > QueueCapacity
    THEN /\ db_dropped_count_' = db_dropped_count_ + 1
         /\ UNCHANGED write_queue_
    ELSE /\ write_queue_' = Append(write_queue_, order)
         /\ UNCHANGED db_dropped_count_

\* DBWriter::write_order
write_order(order) ==
  IF Len(write_queue_) >= QueueCapacity
    THEN /\ db_dropped_count_' = db_dropped_count_ + 1
         /\ UNCHANGED write_queue_
    ELSE /\ write_queue_' = Append(write_queue_, order)
         /\ UNCHANGED db_dropped_count_

\* the callbacks invoked last-registered first
notify_update_Reversed(order) ==
  cb_log' = cb_log \o [i \in 1..Len(update_callbacks_) |->
                         <<update_callbacks_[Len(update_callbacks_) + 1 - i],
                           order>>]

\* the callbacks invoked only when the persistence queue has room
notify_update_UnlessDropped(order) ==
  cb_log' = IF Len(write_queue_) >= QueueCapacity
              THEN cb_log
              ELSE cb_log \o [i \in 1..Len(update_callbacks_) |->
                                <<update_callbacks_[i], order>>]

\* OrderManager::notify_update: every registered callback, in order.
notify_update(order) ==
  cb_log' = cb_log \o [i \in 1..Len(update_callbacks_) |->
                         <<update_callbacks_[i], order>>]

---------------------------------------------------------------------------
(* The heap of OrderEntry objects.  An entry freed by the primary index   *)
(* (its unique_ptr replaced) keeps its address and its bytes; a thread    *)
(* that still holds the pointer reads and writes that memory, which a     *)
(* later make_unique may have handed out again.                           *)

Cell(order) == [order |-> order, mutex |-> NoThread, live |-> TRUE]

\* The addresses make_unique<OrderEntry> may return.
FreeAddresses ==
  {a \in 1..Len(heap) : ~heap[a].live} \cup {Len(heap) + 1}

\* heap after constructing an OrderEntry for `order` at address a
Construct(h, a, order) ==
  IF a = Len(h) + 1 THEN Append(h, Cell(order))
                    ELSE [h EXCEPT ![a] = Cell(order)]

\* heap after destroying the OrderEntry at address a (0: nothing to destroy)
Destroy(h, a) ==
  IF a = NoEntry THEN h ELSE [h EXCEPT ![a].live = FALSE]

---------------------------------------------------------------------------
(* Calls.  A thread that is idle makes the next call; when a method       *)
(* returns, its result is in ret and the thread is at "done".             *)

\* The call c starts on thread t.
Begin(t, c) ==
  /\ pc[t] = "idle"
  /\ calls' = calls + 1
  /\ call' = [call EXCEPT ![t] = c]

Finish(t, r) ==
  /\ pc' = [pc EXCEPT ![t] = "done"]
  /\ ret' = [ret EXCEPT ![t] = r]

Return(t) ==
  /\ pc[t] = "done"
  /\ pc' = [pc EXCEPT ![t] = "idle"]
  /\ call' = [call EXCEPT ![t] = NoCall]
  /\ ret' = [ret EXCEPT ![t] = NoRet]
  /\ entry' = [entry EXCEPT ![t] = NoEntry]
  /\ quiet' = [quiet EXCEPT ![t] = FALSE]
  /\ UNCHANGED <<storeVars, map_mutex_, order_counter_, update_callbacks_,
                 cb_log, sinkVars, todo, calls>>

---------------------------------------------------------------------------
(* create_order *)

\* fetch_add that does not add
FetchAdd_NoIncrement(counter) == counter

\* the value of order_counter_ after fetch_add(1)
FetchAdd(counter) == counter + 1

generate_client_order_id(now_ms, counter) == <<"ORDER", now_ms, counter>>

\* a duplicate check that finds every id
IsDuplicate_Always(id) == TRUE

\* a duplicate check that never finds the id
IsDuplicate_Never(id) == FALSE

\* line 33: the client order id is in the primary index
IsDuplicate(id) == id \in DOMAIN orders_by_client_id_

\* an order built without the request
NewOrder_DefaultRequest(id, request) == Order(id, NoRequest)

\* line 46: the order create_order builds
NewOrder(id, request) == Order(id, request)

CreateCall(request, id) ==
  [NoCall EXCEPT !.op = "create_order", !.request = request, !.id = id]

\* lines 30-39: the duplicate check, under map_mutex_
CreateCheck(t, request, id) ==
  /\ map_mutex_ = NoThread
  /\ Begin(t, CreateCall(request, id))
  /\ IF IsDuplicate(id)
       THEN /\ log("ERROR", "Duplicate client_order_id: ", id)
            /\ Finish(t, [NoRet EXCEPT !.id = NoId])
       ELSE /\ pc' = [pc EXCEPT ![t] = "c_insert"]
            /\ UNCHANGED <<message_queue_, log_dropped_count_, ret>>
  /\ UNCHANGED <<storeVars, map_mutex_, update_callbacks_, cb_log,
                 write_queue_, db_dropped_count_, entry, todo, quiet>>

\* lines 25-39: create_order is called; the client order id is the request's
\* or, when that is empty, a generated one (lines 27-28), and it is checked.
CreateOrder(t, request) ==
  IF request.client_order_id = NoId
    THEN \E now_ms \in Millis :
           /\ order_counter_' = FetchAdd(order_counter_)
           /\ CreateCheck(t, request,
                          generate_client_order_id(now_ms, order_counter_))
    ELSE /\ UNCHANGED order_counter_
         /\ CreateCheck(t, request, request.client_order_id)

\* lines 46-52: the order is built and stored under map_mutex_, taken anew;
\* operator[] of the index replaces (and destroys) an entry already there.
CreateInsert(t) ==
  /\ pc[t] = "c_insert"
  /\ map_mutex_ = NoThread
  /\ \E a \in FreeAddresses :
       LET id == call[t].id
           old == IF id \in DOMAIN orders_by_client_id_
                    THEN orders_by_client_id_[id] ELSE NoEntry
       IN /\ heap' = Destroy(Construct(heap, a, NewOrder(id, call[t].request)),
                           old)
          /\ orders_by_client_id_' = Put(orders_by_client_id_, id, a)
  /\ pc' = [pc EXCEPT ![t] = "c_publish"]
  /\ UNCHANGED <<exchange_id_to_client_id_, map_mutex_, order_counter_,
                 update_callbacks_, cb_log, sinkVars, call, entry, todo,
                 quiet, ret, calls>>

\* lines 54-68: log, persist and notify with the local copy of the order
CreatePublish(t) ==
  /\ pc[t] = "c_publish"
  /\ LET order == NewOrder(call[t].id, call[t].request)
     IN /\ log("INFO", "Created order: ", call[t].id)
        /\ write_order(order)
        /\ notify_update(order)
  /\ Finish(t, [NoRet EXCEPT !.id = call[t].id])
  /\ UNCHANGED <<storeVars, map_mutex_, order_counter_, update_callbacks_,
                 call, entry, todo, quiet, calls>>

---------------------------------------------------------------------------
(* update_order *)

\* The argument lists update_order is called with.  Between them they set
\* each state, give each exchange id or leave it at its default "", give a
\* filled amount that is positive (1, 2), zero (the default) or negative,
\* and give each error message or leave it at its default "".
UpdateArgs ==
  { [new_state |-> "OPEN", exchange_order_id |-> "EX1",
      filled_amount |-> 0, error_msg |-> ""],
    [new_state |-> "PARTIAL", exchange_order_id |-> "EX2",
      filled_amount |-> 1, error_msg |-> ""],
    [new_state |-> "FILLED", exchange_order_id |-> "",
      filled_amount |-> 2, error_msg |-> ""],
    [new_state |-> "CANCELED", exchange_order_id |-> "",
      filled_amount |-> 0, error_msg |-> "err2"],
    [new_state |-> "REJECTED", exchange_order_id |-> "",
      filled_amount |-> -1, error_msg |-> "err1"],
    [new_state |-> "PENDING", exchange_order_id |-> "",
      filled_amount |-> 0, error_msg |-> ""] }

\* The client order ids a caller may pass: its own, and those create_order
\* has returned.
KnownIds == ExplicitIds \cup DOMAIN orders_by_client_id_

UpdateCall(id, a) ==
  [NoCall EXCEPT !.op = "update_order", !.id = id,
                 !.new_state = a.new_state,
                 !.exchange_order_id = a.exchange_order_id,
                 !.filled_amount = a.filled_amount,
                 !.error_msg = a.error_msg]

\* an unknown id reported as a success
UpdateNotFound_ReturnsTrue(t, id) ==
  /\ log("ERROR", "Order not found: ", id)
  /\ Finish(t, [NoRet EXCEPT !.ok = TRUE])

\* lines 80-85: the id is not in the primary index; update_order logs the
\* error and returns false
UpdateNotFound(t, id) ==
  /\ log("ERROR", "Order not found: ", id)
  /\ Finish(t, [NoRet EXCEPT !.ok = FALSE])

\* lines 71-87: update_order is called; the entry pointer, under map_mutex_
UpdateFind(t, id, a) ==
  /\ map_mutex_ = NoThread
  /\ Begin(t, UpdateCall(id, a))
  /\ IF id \notin DOMAIN orders_by_client_id_
       THEN /\ UpdateNotFound(t, id)
            /\ UNCHANGED entry
       ELSE /\ entry' = [entry EXCEPT ![t] = orders_by_client_id_[id]]
            /\ pc' = [pc EXCEPT ![t] = "u_lock"]
            /\ UNCHANGED <<message_queue_, log_dropped_count_, ret>>
  /\ UNCHANGED <<storeVars, map_mutex_, order_counter_, update_callbacks_,
                 cb_log, write_queue_, db_dropped_count_, todo, quiet>>

\* line 95: the state is set unconditionally
SetState(order, new_state) == [order EXCEPT !.state = new_state]

\* an exchange id recorded whether or not the order has one
TakesExchangeId_Overwrites(order, exchange_order_id) == exchange_order_id # ""

\* line 101: whether the exchange id is recorded
TakesExchangeId(order, exchange_order_id) ==
  exchange_order_id # "" /\ order.exchange_order_id = ""

\* lines 101-102
SetExchangeId(order, exchange_order_id) ==
  IF TakesExchangeId(order, exchange_order_id)
    THEN [order EXCEPT !.exchange_order_id = exchange_order_id]
    ELSE order

\* a filled amount of zero taken as a value to store
SetFilledAmount_ZeroResets(order, filled_amount) ==
  IF filled_amount >= 0 THEN [order EXCEPT !.filled_amount = filled_amount]
                        ELSE order

\* lines 110-112
SetFilledAmount(order, filled_amount) ==
  IF filled_amount > 0 THEN [order EXCEPT !.filled_amount = filled_amount]
                       ELSE order

\* the error message overwritten by whatever is passed
SetErrorMessage_Overwrites(order, error_msg) ==
  [order EXCEPT !.error_message = error_msg]

\* lines 115-117
SetErrorMessage(order, error_msg) ==
  IF error_msg # "" THEN [order EXCEPT !.error_message = error_msg]
                    ELSE order

\* lines 119-134, with the entry's mutex held: the filled amount, the error
\* message, the log line, the persistence write, the callbacks; then the
\* mutex is released and update_order returns true.
UpdateRest(t, order) ==
  LET done == SetErrorMessage(SetFilledAmount(order, call[t].filled_amount),
                              call[t].error_msg)
  IN /\ heap' = [heap EXCEPT ![entry[t]].order = done,
                             ![entry[t]].mutex = NoThread]
     /\ log("INFO", "Updated order: ", call[t].id)
     /\ write_order(done)
     /\ notify_update(done)
     /\ Finish(t, [NoRet EXCEPT !.ok = TRUE])

\* lines 89-102: the entry's mutex is taken; state and exchange id are set.
\* With an exchange id to record the method goes on to take map_mutex_
\* (line 105), still holding the entry's mutex; otherwise it runs to its end.
UpdateLock(t) ==
  /\ pc[t] = "u_lock"
  /\ heap[entry[t]].mutex = NoThread
  /\ LET before == heap[entry[t]].order
         order == SetExchangeId(SetState(before, call[t].new_state),
                                call[t].exchange_order_id)
     IN IF TakesExchangeId(before, call[t].exchange_order_id)
          THEN /\ heap' = [heap EXCEPT ![entry[t]].order = order,
                                       ![entry[t]].mutex = t]
               /\ pc' = [pc EXCEPT ![t] = "u_index"]
               /\ UNCHANGED <<cb_log, sinkVars, ret>>
          ELSE UpdateRest(t, order)
  /\ UNCHANGED <<orders_by_client_id_, exchange_id_to_client_id_, map_mutex_,
                 order_counter_, update_callbacks_, call, entry, todo, quiet,
                 calls>>

\* lines 105-106: the secondary index, under map_mutex_; then the rest
UpdateIndex(t) ==
  /\ pc[t] = "u_index"
  /\ map_mutex_ = NoThread
  /\ exchange_id_to_client_id_' =
       Put(exchange_id_to_client_id_, call[t].exchange_order_id, call[t].id)
  /\ UpdateRest(t, heap[entry[t]].order)
  /\ UNCHANGED <<orders_by_client_id_, map_mutex_, order_counter_,
                 update_callbacks_, call, entry, todo, quiet, calls>>

---------------------------------------------------------------------------
(* get_order, get_order_by_exchange_id, mark_for_cancel *)

\* get_order lines 140-147: the entry pointer, under map_mutex_
get_order_find(t, id) ==
  /\ map_mutex_ = NoThread
  /\ IF id \notin DOMAIN orders_by_client_id_
       THEN /\ Finish(t, [NoRet EXCEPT !.ok = FALSE])
            /\ UNCHANGED entry
       ELSE /\ entry' = [entry EXCEPT ![t] = orders_by_client_id_[id]]
            /\ pc' = [pc EXCEPT ![t] = "g_copy"]
            /\ UNCHANGED ret
  /\ UNCHANGED <<storeVars, map_mutex_, order_counter_, update_callbacks_,
                 cb_log, sinkVars, todo, quiet>>

\* get_order is called
GetFind(t, id) ==
  /\ Begin(t, [NoCall EXCEPT !.op = "get_order", !.id = id])
  /\ get_order_find(t, id)

\* mark_for_cancel is called (line 211: it calls get_order)
MarkForCancelFind(t, id) ==
  /\ Begin(t, [NoCall EXCEPT !.op = "mark_for_cancel", !.id = id])
  /\ get_order_find(t, id)

\* get_order_by_exchange_id line 170: get_order with the client id found
GetByExchangeIdGet(t) ==
  /\ pc[t] = "x_get"
  /\ get_order_find(t, call[t].id)
  /\ UNCHANGED <<call, calls>>

\* a validation that lets every order that is not terminal be canceled
mark_for_cancel_NotTerminal(t, order) ==
  IF is_terminal(order)
    THEN /\ log("WARNING", "Cannot cancel inactive order: ", call[t].id)
         /\ Finish(t, [NoRet EXCEPT !.ok = FALSE])
    ELSE /\ Finish(t, [NoRet EXCEPT !.ok = TRUE])
         /\ UNCHANGED <<message_queue_, log_dropped_count_>>

\* mark_for_cancel lines 215-225, on the copy get_order gave it
mark_for_cancel(t, order) ==
  IF ~is_active(order)
    THEN /\ log("WARNING", "Cannot cancel inactive order: ", call[t].id)
         /\ Finish(t, [NoRet EXCEPT !.ok = FALSE])
    ELSE /\ Finish(t, [NoRet EXCEPT !.ok = TRUE])
         /\ UNCHANGED <<message_queue_, log_dropped_count_>>

\* get_order lines 149-154: the copy, under the entry's mutex
GetCopy(t) ==
  /\ pc[t] = "g_copy"
  /\ heap[entry[t]].mutex = NoThread
  /\ IF call[t].op = "mark_for_cancel"
       THEN mark_for_cancel(t, heap[entry[t]].order)
       ELSE /\ Finish(t, [NoRet EXCEPT !.ok = TRUE,
                                       !.order = heap[entry[t]].order])
            /\ UNCHANGED <<message_queue_, log_dropped_count_>>
  /\ UNCHANGED <<storeVars, map_mutex_, order_counter_, update_callbacks_,
                 cb_log, write_queue_, db_dropped_count_, call, entry, todo,
                 quiet, calls>>

\* get_order_by_exchange_id lines 157-168: it is called; the client id,
\* under map_mutex_
GetByExchangeIdFind(t, e) ==
  /\ map_mutex_ = NoThread
  /\ IF e \notin DOMAIN exchange_id_to_client_id_
       THEN /\ Begin(t, [NoCall EXCEPT !.op = "get_order_by_exchange_id",
                                       !.exchange_order_id = e])
            /\ Finish(t, [NoRet EXCEPT !.ok = FALSE])
       ELSE /\ Begin(t, [NoCall EXCEPT !.op = "get_order_by_exchange_id",
                                       !.exchange_order_id = e,
                                       !.id = exchange_id_to_client_id_[e]])
            /\ pc' = [pc EXCEPT ![t] = "x_get"]
            /\ UNCHANGED ret
  /\ UNCHANGED <<storeVars, map_mutex_, order_counter_, update_callbacks_,
                 cb_log, sinkVars, entry, todo, quiet>>

---------------------------------------------------------------------------
(* register_update_callback *)

\* lines 178-181
RegisterUpdateCallback(t, cb) ==
  /\ Begin(t, [NoCall EXCEPT !.op = "register_update_callback",
                             !.callback = cb])
  /\ update_callbacks_' = Append(update_callbacks_, cb)
  /\ Finish(t, NoRet)
  /\ UNCHANGED <<storeVars, map_mutex_, order_counter_, cb_log, sinkVars,
                 entry, todo, quiet>>

---------------------------------------------------------------------------
(* get_active_orders, get_all_orders *)

\* thread u is inside create_order or update_order
Mutating(u) == pc[u] \in {"c_insert", "c_publish", "u_lock", "u_index"}

\* lines 183-186 / 197-200: the method is called; map_mutex_ is taken and
\* held for the whole loop
ListLock(t, op) ==
  /\ map_mutex_ = NoThread
  /\ Begin(t, [NoCall EXCEPT !.op = op])
  /\ map_mutex_' = t
  /\ todo' = [todo EXCEPT ![t] = DOMAIN orders_by_client_id_]
  /\ quiet' = [quiet EXCEPT ![t] = \A u \in DOMAIN pc \ {t} : ~Mutating(u)]
  /\ pc' = [pc EXCEPT ![t] = "l_loop"]
  /\ UNCHANGED <<storeVars, order_counter_, update_callbacks_, cb_log,
                 sinkVars, entry, ret>>

get_active_orders(t) == ListLock(t, "get_active_orders")

get_all_orders(t) == ListLock(t, "get_all_orders")

\* a loop body that keeps every order
Listed_All(op, order) == TRUE

\* whether the loop body keeps the order
Listed(op, order) == op = "get_all_orders" \/ is_active(order)

\* lines 187-192 / 201-204: one entry, copied under its mutex.  The order
\* in which the index is walked is the container's.
ListNext(t) ==
  /\ pc[t] = "l_loop"
  /\ \E id \in todo[t] :
       LET e == heap[orders_by_client_id_[id]]
       IN /\ e.mutex = NoThread
          /\ ret' = [ret EXCEPT ![t].orders =
                       IF Listed(call[t].op, e.order) THEN Append(@, e.order)
                                                      ELSE @]
          /\ todo' = [todo EXCEPT ![t] = @ \ {id}]
  /\ UNCHANGED <<storeVars, map_mutex_, order_counter_, update_callbacks_,
                 cb_log, sinkVars, pc, call, entry, quiet, calls>>

\* lines 194 / 206: the loop is over, map_mutex_ is released
ListEnd(t) ==
  /\ pc[t] = "l_loop"
  /\ todo[t] = {}
  /\ map_mutex_' = NoThread
  /\ pc' = [pc EXCEPT ![t] = "done"]
  /\ UNCHANGED <<storeVars, order_counter_, update_callbacks_, cb_log,
                 sinkVars, call, entry, todo, quiet, ret, calls>>

---------------------------------------------------------------------------
(* The store after construction, and its threads *)

\* a worker after construction: not running, no consumer thread
InitWorker ==
  /\ running_ = FALSE
  /\ queue_mutex_ = NoThread
  /\ wpc = "none"
  /\ hand = NoItem
  /\ processed = <<>>
  /\ consumers = 0
  /\ owner = "idle"
  /\ submitted = 0
  /\ at_stop = NoStop

\* the default-constructed Response of execute_with_retry
NoResponse == [success |-> FALSE, http_status |-> 0, body |-> ""]

\* a default-constructed ExecutionResult
NoResult ==
  [success |-> FALSE, http_status |-> 0, exchange_order_id |-> "",
   error_message |-> ""]

NoGrant == [at |-> -1, expires_in |-> 0, access_token |-> ""]

NoFlow == [pc |-> "none", request |-> NoRequest, order_id |-> NoId]

\* ExecutionGateway::ExecutionGateway: no token; nothing in progress
InitGateway ==
  /\ access_token_ = ""
  /\ token_expiry_ = 0
  /\ clock = 0
  /\ gpc = "idle"
  /\ endpoint = ""
  /\ attempt = 0
  /\ response = NoResponse
  /\ result = NoResult
  /\ now = 0
  /\ bearer = ""
  /\ trace = <<>>
  /\ backoff_ms = 0
  /\ delays = <<>>
  /\ exchanges = 0
  /\ granted = NoGrant
  /\ refused = FALSE
  /\ main = NoFlow

\* OrderManager::OrderManager: an empty store, no thread in a call
InitStore ==
  /\ heap = <<>>
  /\ orders_by_client_id_ = EmptyMap
  /\ exchange_id_to_client_id_ = EmptyMap
  /\ map_mutex_ = NoThread
  /\ order_counter_ = 0
  /\ update_callbacks_ = <<>>
  /\ cb_log = <<>>
  /\ write_queue_ = <<>>
  /\ db_dropped_count_ = 0
  /\ message_queue_ = <<>>
  /\ log_dropped_count_ = 0
  /\ pc = [t \in Threads |-> "idle"]
  /\ call = [t \in Threads |-> NoCall]
  /\ entry = [t \in Threads |-> NoEntry]
  /\ todo = [t \in Threads |-> {}]
  /\ quiet = [t \in Threads |-> FALSE]
  /\ ret = [t \in Threads |-> NoRet]
  /\ calls = 0
  /\ instants = [t \in Threads |-> {}]

Init ==
  /\ InitStore
  /\ worker = "DBWriter"
  /\ InitWorker
  /\ InitGateway

\* a method is called on thread t
Call(t) ==
  \/ \E request \in Requests : CreateOrder(t, request)
  \/ \E id \in KnownIds, a \in UpdateArgs : UpdateFind(t, id, a)
  \/ \E id \in KnownIds : GetFind(t, id)
  \/ \E e \in ExchangeIds : GetByExchangeIdFind(t, e)
  \/ \E id \in KnownIds : MarkForCancelFind(t, id)
  \/ \E cb \in Callbacks : RegisterUpdateCallback(t, cb)
  \/ get_active_orders(t)
  \/ get_all_orders(t)

\* the method running on thread t goes on, or returns
Step(t) ==
  \/ CreateInsert(t)
  \/ CreatePublish(t)
  \/ UpdateLock(t)
  \/ UpdateIndex(t)
  \/ GetCopy(t)
  \/ GetByExchangeIdGet(t)
  \/ ListNext(t)
  \/ ListEnd(t)
  \/ Return(t)

\* Threads calling into one store concurrently, MaxCalls calls in all.
Next ==
  /\ \E t \in Threads :
       \/ calls < MaxCalls /\ Call(t)
       \/ Step(t)
  /\ UNCHANGED <<workerVars, gatewayVars, main, instants>>

Spec == Init /\ [][Next]_vars

\* One thread calling into the store, one call after the other, and one
\* call more.
SeqThread == "t1"

NextSeq ==
  /\ \/ calls < MaxCalls + 1 /\ Call(SeqThread)
     \/ Step(SeqThread)
  /\ UNCHANGED <<workerVars, gatewayVars, main, instants>>

SpecSeq == Init /\ [][NextSeq]_vars

---------------------------------------------------------------------------
(* The queue workers: DBWriter and Logger.  Both are a bounded queue, a    *)
(* running_ flag and one consumer thread (worker_thread); DBWriter.cpp and *)
(* Logger.cpp have the same start, stop, submit (write_order, log) and     *)
(* worker_thread but for DBWriter::start's init_database and the item      *)
(* processing.  start and stop are called by the thread that owns the      *)
(* worker (main(), the tests), one call after the other; write_order and   *)
(* log are called by any thread.                                           *)

storeSide ==
  <<storeVars, map_mutex_, order_counter_, update_callbacks_, cb_log, entry,
    todo, quiet, gatewayVars, main, instants>>

Consumer == "consumer"

Queue == IF worker = "DBWriter" THEN write_queue_ ELSE message_queue_

Capacity == IF worker = "DBWriter" THEN QueueCapacity ELSE LogCapacity

dropped_count_ ==
  IF worker = "DBWriter" THEN db_dropped_count_ ELSE log_dropped_count_

\* the worker's queue becomes q
SetQueue(q) ==
  IF worker = "DBWriter"
    THEN write_queue_' = q /\ UNCHANGED message_queue_
    ELSE message_queue_' = q /\ UNCHANGED write_queue_

\* the n-th item passed to the worker: an order snapshot, a log message
Item(n) ==
  IF worker = "DBWriter"
    THEN Order(generate_client_order_id(0, n), NoRequest)
    ELSE <<"INFO", "message", generate_client_order_id(0, n)>>

\* a notification that wakes nobody
notify_one_Never == wpc' = wpc

\* queue_cv_.notify_one(): a consumer blocked in wait is woken; a consumer
\* that is not blocked in wait does not notice
notify_one ==
  wpc' = IF wpc = "w_waiting" THEN "w_woken" ELSE wpc

\* DBWriter::write_order 48-56, Logger::log 59-67: the item is queued or
\* dropped, under queue_mutex_
Submit(t) ==
  /\ pc[t] = "idle"
  /\ submitted < MaxSubmits
  /\ queue_mutex_ = NoThread
  /\ submitted' = submitted + 1
  /\ call' = [call EXCEPT ![t] =
                [NoCall EXCEPT !.op = IF worker = "DBWriter"
                                        THEN "write_order" ELSE "log"]]
  /\ IF worker = "DBWriter"
       THEN /\ write_order(Item(submitted))
            /\ UNCHANGED <<message_queue_, log_dropped_count_>>
       ELSE /\ log("INFO", "message", generate_client_order_id(0, submitted))
            /\ UNCHANGED <<write_queue_, db_dropped_count_>>
  /\ IF Len(Queue) >= Capacity
       THEN Finish(t, [NoRet EXCEPT !.ok = FALSE])
       ELSE /\ pc' = [pc EXCEPT ![t] = "s_notify"]
            /\ UNCHANGED ret
  /\ UNCHANGED <<storeSide, calls, worker, running_, queue_mutex_, wpc, hand,
                 processed, consumers, owner, at_stop>>

\* DBWriter::write_order 58-59, Logger::log 69: the consumer is notified
SubmitNotify(t) ==
  /\ pc[t] = "s_notify"
  /\ notify_one
  /\ Finish(t, [NoRet EXCEPT !.ok = TRUE])
  /\ UNCHANGED <<storeSide, sinkVars, call, calls, worker, running_,
                 queue_mutex_, hand, processed, consumers, owner, submitted,
                 at_stop>>

\* write_order / log has returned to its caller
SubmitReturn(t) ==
  /\ call[t].op \in {"write_order", "log"}
  /\ Return(t)
  /\ UNCHANGED <<workerVars, gatewayVars, main, instants>>

\* a start that never finds the flag set
AlreadyRunning_Never == FALSE

\* running_.exchange(true) found the flag set
AlreadyRunning == running_

\* running_.exchange(false) found the flag clear
AlreadyStopped == ~running_

\* DBWriter::start 20-34, Logger::start 29-34.  A start that finds the flag
\* set returns; DBWriter's init_database may fail, which is logged and
\* clears the flag; otherwise the consumer thread is created.
Start ==
  /\ owner = "idle"
  /\ calls < MaxCalls
  /\ calls' = calls + 1
  /\ owner' = IF AlreadyRunning THEN "start_noop" ELSE "start_done"
  /\ IF AlreadyRunning
       THEN UNCHANGED <<running_, wpc, consumers, sinkVars>>
       ELSE \/ /\ running_' = TRUE
               /\ wpc' = "w_while"
               /\ consumers' = consumers + 1
               /\ UNCHANGED sinkVars
            \/ /\ worker = "DBWriter"
               /\ log("ERROR", "Failed to initialize database", NoId)
               /\ UNCHANGED <<running_, wpc, consumers, write_queue_,
                              db_dropped_count_>>
  /\ UNCHANGED <<storeSide, pc, call, ret, worker, queue_mutex_, hand,
                 processed, submitted, at_stop>>

\* the items accepted so far: processed, in the consumer's hand, queued
Accepted ==
  {processed[i] : i \in 1..Len(processed)}
    \cup {Queue[i] : i \in 1..Len(Queue)}
    \cup (IF hand = NoItem THEN {} ELSE {hand})

\* the items accepted and not yet processed: in the consumer's hand, queued
Pending ==
  {Queue[i] : i \in 1..Len(Queue)}
    \cup (IF hand = NoItem THEN {} ELSE {hand})

\* stop 37-39: running_.exchange(false); a stop that finds the flag clear
\* returns
StopExchange ==
  /\ owner = "idle"
  /\ calls < MaxCalls
  /\ calls' = calls + 1
  /\ IF AlreadyStopped
       THEN /\ owner' = "stop_noop"
            /\ UNCHANGED <<running_, at_stop>>
       ELSE /\ running_' = FALSE
            /\ owner' = "stop_notify"
            /\ at_stop' = [called |-> TRUE, items |-> Accepted,
                            pending |-> Pending]
  /\ UNCHANGED <<storeSide, sinkVars, pc, call, ret, worker, queue_mutex_,
                 wpc, hand, processed, consumers, submitted>>

\* stop 41: queue_cv_.notify_one(), without queue_mutex_
StopNotify ==
  /\ owner = "stop_notify"
  /\ notify_one
  /\ owner' = "stop_join"
  /\ UNCHANGED <<storeSide, sinkVars, pc, call, ret, calls, worker, running_,
                 queue_mutex_, hand, processed, consumers, submitted,
                 at_stop>>

\* stop 43-45: worker_.join() returns when the consumer thread has exited
StopJoin ==
  /\ owner = "stop_join"
  /\ wpc = "exited"
  /\ wpc' = "none"
  /\ owner' = "stop_done"
  /\ UNCHANGED <<storeSide, sinkVars, pc, call, ret, calls, worker, running_,
                 queue_mutex_, hand, processed, consumers, submitted,
                 at_stop>>

\* start / stop has returned to the owner
OwnerReturn ==
  /\ owner \in {"start_done", "start_noop", "stop_done", "stop_noop"}
  /\ owner' = "idle"
  /\ at_stop' = NoStop
  /\ UNCHANGED <<storeSide, sinkVars, pc, call, ret, calls, worker, running_,
                 queue_mutex_, wpc, hand, processed, consumers, submitted>>

\* what no step of the consumer thread changes
consumerFrame == <<storeSide, pc, call, ret, calls, worker, running_, owner,
                   submitted, at_stop, consumers>>

\* worker_thread, DBWriter 63 / Logger 91: while (running_.load())
WorkerWhile ==
  /\ wpc = "w_while"
  /\ wpc' = IF running_ THEN "w_lock" ELSE "w_drain"
  /\ UNCHANGED <<consumerFrame, sinkVars, queue_mutex_, hand, processed>>

\* the predicate of queue_cv_.wait (DBWriter 67, Logger 95)
WaitPredicate == Queue # <<>> \/ ~running_

\* DBWriter 64-68 / Logger 92-96: queue_mutex_ is taken (at first, or when
\* wait wakes) and wait evaluates its predicate; with the predicate false
\* the thread goes on to block, still holding queue_mutex_
WorkerLockPred ==
  /\ wpc \in {"w_lock", "w_woken"}
  /\ queue_mutex_ = NoThread
  /\ queue_mutex_' = Consumer
  /\ wpc' = IF WaitPredicate THEN "w_inner" ELSE "w_block"
  /\ UNCHANGED <<consumerFrame, sinkVars, hand, processed>>

\* wait releases queue_mutex_ and blocks, as one step
WorkerBlock ==
  /\ wpc = "w_block"
  /\ queue_mutex_' = NoThread
  /\ wpc' = "w_waiting"
  /\ UNCHANGED <<consumerFrame, sinkVars, hand, processed>>

\* a condition variable may wake its waiter without a notification
SpuriousWake ==
  /\ wpc = "w_waiting"
  /\ wpc' = "w_woken"
  /\ UNCHANGED <<consumerFrame, sinkVars, queue_mutex_, hand, processed>>

\* DBWriter 70-74 / Logger 98-102: with queue_mutex_ held, the front item is
\* popped and the mutex released; with the queue empty the loop is left
\* (and the mutex released at the end of the while body)
WorkerPop ==
  /\ wpc = "w_inner"
  /\ queue_mutex_' = NoThread
  /\ IF Queue = <<>>
       THEN /\ wpc' = "w_while"
            /\ UNCHANGED <<sinkVars, hand>>
       ELSE /\ hand' = Head(Queue)
            /\ SetQueue(Tail(Queue))
            /\ wpc' = "w_exec"
            /\ UNCHANGED <<db_dropped_count_, log_dropped_count_>>
  /\ UNCHANGED <<consumerFrame, processed>>

\* DBWriter 76-79 / Logger 104-112: the item is processed, without the mutex
WorkerExecute ==
  /\ wpc = "w_exec"
  /\ processed' = Append(processed, hand)
  /\ hand' = NoItem
  /\ wpc' = "w_relock"
  /\ UNCHANGED <<consumerFrame, sinkVars, queue_mutex_>>

\* DBWriter 81 / Logger 114: lock.lock()
WorkerRelock ==
  /\ wpc = "w_relock"
  /\ queue_mutex_ = NoThread
  /\ queue_mutex_' = Consumer
  /\ wpc' = "w_inner"
  /\ UNCHANGED <<consumerFrame, sinkVars, hand, processed>>

\* a final drain that processes nothing
Drained_Nothing(q) == <<>>

\* a final drain that takes the queue from its back
Drained_Reversed(q) == [i \in 1..Len(q) |-> q[Len(q) + 1 - i]]

\* what the final drain processes of the queue q
Drained(q) == q

\* DBWriter 86 / Logger 119: the final drain takes queue_mutex_, as a
\* lock_guard that lives to the end of worker_thread
WorkerDrainLock ==
  /\ wpc = "w_drain"
  /\ queue_mutex_ = NoThread
  /\ queue_mutex_' = Consumer
  /\ wpc' = "w_draining"
  /\ UNCHANGED <<consumerFrame, sinkVars, hand, processed>>

\* DBWriter 87-95 / Logger 120-131: the final drain pops and processes what
\* is queued, holding queue_mutex_ throughout; the thread exits and the
\* lock_guard releases the mutex
WorkerDrain ==
  /\ wpc = "w_draining"
  /\ processed' = processed \o Drained(Queue)
  /\ SetQueue(<<>>)
  /\ queue_mutex_' = NoThread
  /\ wpc' = "exited"
  /\ consumers' = consumers - 1
  /\ UNCHANGED <<storeSide, pc, call, ret, calls, worker, running_, owner,
                 submitted, at_stop, hand, db_dropped_count_,
                 log_dropped_count_>>

\* A worker, its owner and the threads that submit to it.
InitWorkers ==
  /\ InitStore
  /\ worker \in Workers
  /\ InitWorker
  /\ InitGateway

NextWorkers ==
  \/ \E t \in Threads : Submit(t) \/ SubmitNotify(t) \/ SubmitReturn(t)
  \/ Start \/ StopExchange \/ StopNotify \/ StopJoin \/ OwnerReturn
  \/ WorkerWhile \/ WorkerLockPred \/ WorkerBlock \/ SpuriousWake
  \/ WorkerPop \/ WorkerExecute \/ WorkerRelock \/ WorkerDrainLock
  \/ WorkerDrain

SpecWorkers == InitWorkers /\ [][NextWorkers]_vars

\* Scheduling: a thread that can take a step takes one.  Nothing makes a
\* caller submit, start or stop, and nothing makes a condition variable
\* wake its waiter without a notification.
FairSpecWorkers ==
  /\ SpecWorkers
  /\ \A t \in Threads : WF_vars(SubmitNotify(t)) /\ WF_vars(SubmitReturn(t))
  /\ WF_vars(StopNotify) /\ WF_vars(StopJoin) /\ WF_vars(OwnerReturn)
  /\ WF_vars(WorkerWhile) /\ WF_vars(WorkerLockPred) /\ WF_vars(WorkerBlock)
  /\ WF_vars(WorkerPop) /\ WF_vars(WorkerExecute) /\ WF_vars(WorkerRelock)
  /\ WF_vars(WorkerDrainLock) /\ WF_vars(WorkerDrain)

---------------------------------------------------------------------------
(* The execution gateway (ExecutionGateway): place_order and get_orderbook *)
(* through execute_with_retry, http_post / http_get and get_access_token.  *)
(* One thread calls the gateway, as main() does.  The exchange is the      *)
(* environment: every request gets one of the responses below.  The clock  *)
(* counts whole seconds.  A response body is a string; the bodies that     *)
(* json::parse and the lookups of place_order tell apart are listed.       *)

max_retries_ == 3
base_backoff_ms_ == 100

MaxTime == 2
MaxGatewayCalls == 2

\* the largest int of the build (32 bits); every int computed below is
\* far from it, so none is reduced
INT_MAX == 2147483647

\* a / b of two ints, b > 0: the quotient is truncated towards zero
Div(a, b) == IF a >= 0 THEN a \div b ELSE -((-a) \div b)

\* line 344: base_backoff_ms_ * (1 << attempt)
BackoffBase(k) == base_backoff_ms_ * (2^k)

\* a jitter of up to half the base
Jitter_Half(base) == Div(-base, 2)..Div(base, 2)

\* line 348: what uniform_int_distribution<int>(-base / 4, base / 4) draws
Jitter(base) == Div(-base, 4)..Div(base, 4)

\* lines 342-351, with the number drawn from the distribution
calculate_backoff_ms(k, drawn) == BackoffBase(k) + drawn

\* the draws followed in the retry loop: both ends of the range
SomeJitter(base) == {Div(-base, 4), Div(base, 4)}

\* lines 245, 290
Is2xx(status) == status >= 200 /\ status < 300

\* a retry on every failure while attempts remain
should_retry_AnyFailure(resp, k) == k < max_retries_

\* no retry at all
should_retry_Never(resp, k) == FALSE

\* a retry whether or not attempts remain
should_retry_NoBudget(resp, k) ==
  resp.http_status = 429 \/ resp.http_status >= 500

\* lines 321-322
should_retry(resp, k) ==
  (resp.http_status = 429 \/ resp.http_status >= 500) /\ k < max_retries_

\* line 308: attempt <= max_retries_
InLoop(k) == k <= max_retries_

BodyOrder == "{result:{order:{order_id:EX1}}}"
BodyOrderNoId == "{result:{order:{}}}"
BodyNoOrder == "{error:{code:10000}}"
BodyNotJson == "<html>"

\* json::parse(body) succeeds
IsJson(body) == body \in {BodyOrder, BodyOrderNoId, BodyNoOrder}

\* response.contains("result") && response["result"].contains("order")
HasOrder(body) == body \in {BodyOrder, BodyOrderNoId}

\* order.value("order_id", "")
OrderId(body) == IF body = BodyOrder THEN "EX1" ELSE ""

\* lines 238-250: what http_post / http_get make of the transport's outcome;
\* status 0 is a failure of the transport (curl_easy_perform)
Received(status, body) ==
  [success |-> status # 0 /\ Is2xx(status), http_status |-> status,
   body |-> body]

Responses ==
  {Received(200, b) : b \in {BodyOrder, BodyNoOrder, BodyNotJson}}
    \cup {Received(429, "err1"), Received(503, "err2"), Received(404, "err2"),
          Received(0, "Couldn't connect to server")}

Tokens == {"token1"}
Lifetimes == {1, 3}

\* the responses to the credential exchange (public/auth)
AuthResponses ==
  {Received(200, [kind |-> "grant", access_token |-> tk, expires_in |-> l]) :
     tk \in Tokens, l \in Lifetimes}
    \cup {Received(200, [kind |-> "no_expires_in", access_token |-> tk]) :
            tk \in Tokens}
    \cup {Received(200, [kind |-> "not_json"]),
          Received(401, [kind |-> "no_result"]),
          Received(0, [kind |-> "not_json"])}

\* place_order line 49
PlaceEndpoints == {"/api/v2/private/buy", "/api/v2/private/sell"}

\* cancel_order line 83, modify_order line 107: their results are made
\* without parsing the body
PlainEndpoints == {"/api/v2/private/cancel", "/api/v2/private/edit"}

\* get_order_status line 126 (without the query string)
StatusEndpoint == "/api/v2/private/get_order_state"

PrivateEndpoints == PlaceEndpoints \cup PlainEndpoints \cup {StatusEndpoint}
PublicEndpoints == {"/api/v2/public/get_order_book"}

\* line 223: endpoint.find("/private/") != npos
IsPrivate(e) == e \in PrivateEndpoints

\* the method execute_with_retry is called with for the endpoint: POST by
\* place_order, cancel_order and modify_order (lines 50, 86, 110), GET by
\* get_order_status and get_orderbook (lines 128, 159)
Method(e) ==
  IF e \in PlaceEndpoints \cup PlainEndpoints THEN "POST" ELSE "GET"

\* what the gateway steps leave alone
gatewayFrame ==
  <<storeVars, map_mutex_, order_counter_, update_callbacks_, cb_log, pc, call,
    entry, todo, quiet, ret, workerVars, write_queue_, db_dropped_count_,
    instants>>

logFrame == <<message_queue_, log_dropped_count_>>

\* a gateway method is entered and reaches execute_with_retry
Enter(e) ==
  /\ gpc = "idle"
  /\ endpoint' = e
  /\ attempt' = 0
  /\ response' = NoResponse
  /\ result' = NoResult
  /\ trace' = <<>>
  /\ backoff_ms' = 0
  /\ delays' = <<>>
  /\ exchanges' = 0
  /\ refused' = FALSE
  /\ bearer' = ""
  /\ gpc' = IF InLoop(0) THEN "g_request" ELSE "g_ret"
  /\ UNCHANGED <<access_token_, token_expiry_, clock, now, granted, logFrame>>

\* place_order, lines 28-50
place_order(request) ==
  Enter(IF request.side = "BUY" THEN "/api/v2/private/buy"
                                ELSE "/api/v2/private/sell")

\* get_orderbook, lines 153-159
get_orderbook == Enter("/api/v2/public/get_order_book")

\* cancel_order, lines 77-86
cancel_order == Enter("/api/v2/private/cancel")

\* modify_order, lines 98-110
modify_order == Enter("/api/v2/private/edit")

\* get_order_status, lines 122-128
get_order_status == Enter(StatusEndpoint)

\* the cached token is used until this instant
Expiry_NoMargin(at, expires_in) == at + expires_in

\* line 393: now + seconds(expires_in * 9 / 10)
Expiry(at, expires_in) == at + Div(expires_in * 9, 10)

\* line 371: the cached token is there and not expired
TokenIsValid == access_token_ # "" /\ clock < token_expiry_

\* lines 309-313 and 204-229, 368-373: the attempt's http_post or http_get
\* begins; a POST to a private endpoint takes the cached token or goes to
\* the credential exchange
HttpBegin ==
  /\ gpc = "g_request"
  /\ IF Method(endpoint) = "POST" /\ IsPrivate(endpoint)
       THEN IF TokenIsValid
              THEN bearer' = access_token_ /\ gpc' = "g_send"
                   /\ UNCHANGED now
              ELSE bearer' = "" /\ gpc' = "g_auth" /\ now' = clock
       ELSE /\ bearer' = ""
            /\ gpc' = "g_send"
            /\ UNCHANGED now
  /\ UNCHANGED <<access_token_, token_expiry_, clock, endpoint, attempt,
                 response, result, trace, delays, backoff_ms, exchanges,
                 granted, refused, main, calls, logFrame, gatewayFrame>>

\* lines 375-408: the credential exchange and what get_access_token makes of
\* its response
Exchange ==
  /\ gpc = "g_auth"
  /\ exchanges' = exchanges + 1
  /\ gpc' = "g_send"
  /\ \E resp \in AuthResponses :
       IF resp.success /\ resp.body.kind = "grant"
         THEN /\ access_token_' = resp.body.access_token
              /\ token_expiry_' = Expiry(now, resp.body.expires_in)
              /\ granted' = [at |-> now, expires_in |-> resp.body.expires_in,
                              access_token |-> resp.body.access_token]
              /\ log("INFO", "Successfully authenticated with Deribit", NoId)
              /\ bearer' = resp.body.access_token
         ELSE IF resp.success /\ resp.body.kind = "no_expires_in"
           THEN /\ access_token_' = resp.body.access_token
                /\ log("ERROR", "Auth failed: ", NoId)
                /\ bearer' = ""
                /\ UNCHANGED <<token_expiry_, granted>>
         ELSE IF resp.success /\ resp.body.kind = "not_json"
           THEN /\ log("ERROR", "Auth failed: ", NoId)
                /\ bearer' = ""
                /\ UNCHANGED <<access_token_, token_expiry_, granted>>
         ELSE /\ bearer' = ""
              /\ UNCHANGED <<access_token_, token_expiry_, granted, logFrame>>
  /\ now' = 0
  /\ UNCHANGED <<clock, endpoint, attempt, response, result, trace, delays,
                 backoff_ms, refused, main, calls, gatewayFrame>>

\* lines 231-256, 278-301: the request is sent and the transport's outcome
\* becomes the attempt's response
Send ==
  /\ gpc = "g_send"
  /\ \E r \in Responses :
       /\ response' = r
       /\ trace' = Append(trace, r)
  /\ refused' = (\/ refused
                 \/ IsPrivate(endpoint) /\ exchanges > 0 /\ bearer = "")
  /\ gpc' = "g_check"
  /\ UNCHANGED <<access_token_, token_expiry_, clock, endpoint, attempt,
                 result, now, bearer, exchanges, granted, delays, backoff_ms,
                 main, calls, logFrame, gatewayFrame>>

\* lines 315-337: a successful response is returned; a failure that is to be
\* retried is followed by the backoff sleep and the next attempt; any other
\* failure ends the loop
Check ==
  /\ gpc = "g_check"
  /\ IF response.success
       THEN /\ gpc' = "g_ret"
            /\ UNCHANGED <<attempt, backoff_ms, delays, logFrame>>
       ELSE IF should_retry(response, attempt)
         THEN /\ \E drawn \in SomeJitter(BackoffBase(attempt)) :
                   backoff_ms' = calculate_backoff_ms(attempt, drawn)
              /\ delays' = Append(delays, attempt)
              /\ log("WARNING", "Retrying after", NoId)
              /\ attempt' = attempt + 1
              /\ gpc' = IF InLoop(attempt + 1) THEN "g_request" ELSE "g_ret"
         ELSE /\ gpc' = "g_ret"
              /\ UNCHANGED <<attempt, backoff_ms, delays, logFrame>>
  /\ UNCHANGED <<access_token_, token_expiry_, clock, endpoint, response,
                 result, now, bearer, trace, exchanges, granted, refused, main,
                 calls, gatewayFrame>>

\* place_order lines 52-73 (and get_orderbook 161-199, without the book;
\* cancel_order 88-93 and modify_order 112-117, which do not parse;
\* get_order_status 130-148): the ExecutionResult made of
\* execute_with_retry's response
ExecutionResult(e, resp) ==
  IF ~resp.success
    THEN [success |-> FALSE, http_status |-> resp.http_status,
          exchange_order_id |-> "", error_message |-> resp.body]
  ELSE IF e \in PlainEndpoints
    THEN [success |-> TRUE, http_status |-> resp.http_status,
          exchange_order_id |-> "", error_message |-> ""]
  ELSE IF ~IsJson(resp.body)
    THEN [success |-> FALSE, http_status |-> resp.http_status,
          exchange_order_id |-> "", error_message |-> "JSON parse error: "]
  ELSE IF e \in PlaceEndpoints /\ ~HasOrder(resp.body)
    THEN [success |-> FALSE, http_status |-> resp.http_status,
          exchange_order_id |-> "",
          error_message |-> "Invalid response format"]
  ELSE [success |-> TRUE, http_status |-> resp.http_status,
        exchange_order_id |-> IF e \in PlaceEndpoints THEN OrderId(resp.body)
                                                     ELSE "",
        error_message |-> ""]

\* execute_with_retry has returned (lines 317, 339) and the method makes its
\* result
Finished ==
  /\ gpc = "g_ret"
  /\ result' = ExecutionResult(endpoint, response)
  /\ gpc' = "g_done"
  /\ UNCHANGED <<access_token_, token_expiry_, clock, endpoint, attempt,
                 response, now, bearer, trace, delays, backoff_ms, exchanges,
                 granted, refused, main, calls, logFrame, gatewayFrame>>

\* the caller has the result
GatewayReturn ==
  /\ gpc = "g_done"
  /\ gpc' = "idle"
  /\ endpoint' = ""
  /\ attempt' = 0
  /\ response' = NoResponse
  /\ result' = NoResult
  /\ trace' = <<>>
  /\ backoff_ms' = 0
  /\ delays' = <<>>
  /\ exchanges' = 0
  /\ refused' = FALSE
  /\ bearer' = ""
  /\ UNCHANGED <<access_token_, token_expiry_, clock, now, granted, main,
                 calls, logFrame, gatewayFrame>>

\* a second passes
Tick ==
  /\ clock < MaxTime
  /\ clock' = clock + 1
  /\ UNCHANGED <<access_token_, token_expiry_, gpc, endpoint, attempt,
                 response, result, now, bearer, trace, delays, backoff_ms,
                 exchanges, granted, refused, main, calls, logFrame,
                 gatewayFrame>>

\* a call of the gateway
GatewayCall ==
  /\ calls < MaxGatewayCalls
  /\ calls' = calls + 1
  /\ \/ \E request \in Requests : place_order(request)
     \/ get_orderbook
  /\ UNCHANGED <<main, gatewayFrame>>

NextGateway ==
  \/ GatewayCall \/ HttpBegin \/ Exchange \/ Send \/ Check \/ Finished
  \/ GatewayReturn \/ Tick

SpecGateway == Init /\ [][NextGateway]_vars

\* a call of one of the gateway's other methods on private endpoints
PrivateCall ==
  /\ calls < MaxGatewayCalls
  /\ calls' = calls + 1
  /\ \/ cancel_order
     \/ modify_order
     \/ get_order_status
  /\ UNCHANGED <<main, gatewayFrame>>

\* The gateway called for orders that are on the exchange: cancel_order,
\* modify_order, get_order_status, one call after the other, in less than a
\* second.
NextPrivate ==
  \/ PrivateCall \/ HttpBegin \/ Exchange \/ Send \/ Check \/ Finished
  \/ GatewayReturn

SpecPrivate == Init /\ [][NextPrivate]_vars

\* calculate_backoff_ms on its own: called once, with any attempt number
\* from 0 to max_retries_ and any number the distribution can draw.
InitBackoff ==
  /\ InitStore
  /\ worker = "DBWriter"
  /\ InitWorker
  /\ access_token_ = ""
  /\ token_expiry_ = 0
  /\ clock = 0
  /\ gpc = "b_call"
  /\ endpoint = ""
  /\ attempt \in 0..max_retries_
  /\ response = NoResponse
  /\ result = NoResult
  /\ now = 0
  /\ bearer = ""
  /\ trace = <<>>
  /\ backoff_ms = 0
  /\ delays = <<>>
  /\ exchanges = 0
  /\ granted = NoGrant
  /\ refused = FALSE
  /\ main = NoFlow

\* line 329: backoff_ms = calculate_backoff_ms(attempt)
Backoff ==
  /\ gpc = "b_call"
  /\ \E drawn \in Jitter(BackoffBase(attempt)) :
       backoff_ms' = calculate_backoff_ms(attempt, drawn)
  /\ gpc' = "b_done"
  /\ UNCHANGED <<access_token_, token_expiry_, clock, endpoint, attempt,
                 response, result, now, bearer, trace, delays, exchanges,
                 granted, refused, main, calls, logFrame, gatewayFrame>>

SpecBackoff == InitBackoff /\ [][Backoff]_vars

---------------------------------------------------------------------------
(* The place-order flow of main.cpp (lines 414-436, and 221-237 in the     *)
(* interactive loop): create_order, then the gateway's place_order, then   *)
(* update_order with what the gateway returned.  One thread runs it; the   *)
(* interactive loop runs it again while the store calls it makes, two a    *)
(* flow, stay within MaxCalls.  main is the flow's position and locals:    *)
(* the request and the order_id create_order returned.                     *)

MainThread == "t1"

\* the update made of a failure, without its error message
ResultUpdate_NoMessage(res) ==
  IF res.success
    THEN [new_state |-> "OPEN", exchange_order_id |-> res.exchange_order_id,
          filled_amount |-> 0, error_msg |-> ""]
    ELSE [new_state |-> "REJECTED", exchange_order_id |-> "",
          filled_amount |-> 0, error_msg |-> ""]

\* main.cpp lines 422-436: the arguments of update_order, from the result
ResultUpdate(res) ==
  IF res.success
    THEN [new_state |-> "OPEN", exchange_order_id |-> res.exchange_order_id,
          filled_amount |-> 0, error_msg |-> ""]
    ELSE [new_state |-> "REJECTED", exchange_order_id |-> "",
          filled_amount |-> 0, error_msg |-> res.error_message]

\* a flow has ended and another may follow: the process runs the
\* interactive loop, whose place-order requests name no client order id
\* (main.cpp 221); a command runs one flow and the process ends (395-466)
InLoopOfMain == main.pc = "end" /\ main.request.client_order_id = NoId

\* the requests of the flow: the first may be that of the place-order
\* command, which may name a client order id (main.cpp 398, 414)
FlowRequests ==
  IF main.pc = "none" THEN Requests
                      ELSE {r \in Requests : r.client_order_id = NoId}

\* line 416: order_manager->create_order(req)
FlowCreate ==
  /\ main.pc = "none" \/ InLoopOfMain
  /\ gpc = "idle"
  /\ calls + 2 <= MaxCalls
  /\ \E request \in FlowRequests :
       /\ CreateOrder(MainThread, request)
       /\ main' = [pc |-> "create", request |-> request, order_id |-> NoId]
  /\ UNCHANGED <<workerVars, gatewayVars, instants>>

\* create_order or update_order goes on
FlowStoreStep ==
  /\ main.pc \in {"create", "update"}
  /\ \/ CreateInsert(MainThread)
     \/ CreatePublish(MainThread)
     \/ UpdateLock(MainThread)
     \/ UpdateIndex(MainThread)
  /\ UNCHANGED <<workerVars, gatewayVars, main, instants>>

\* line 416: create_order has returned and order_id is what it returned
FlowCreated ==
  /\ main.pc = "create"
  /\ Return(MainThread)
  /\ main' = [main EXCEPT !.pc = "place", !.order_id = ret[MainThread].id]
  /\ UNCHANGED <<workerVars, gatewayVars, instants>>

\* line 420: gateway->place_order(req)
FlowPlace ==
  /\ main.pc = "place"
  /\ place_order(main.request)
  /\ main' = [main EXCEPT !.pc = "placing"]
  /\ UNCHANGED <<calls, gatewayFrame>>

\* place_order goes on
FlowGatewayStep ==
  /\ main.pc = "placing"
  /\ \/ HttpBegin
     \/ Exchange
     \/ Send
     \/ Check
     \/ Finished

\* lines 422-436: update_order with the result of place_order
FlowUpdate ==
  /\ main.pc = "placing"
  /\ gpc = "g_done"
  /\ UpdateFind(MainThread, main.order_id, ResultUpdate(result))
  /\ main' = [main EXCEPT !.pc = "update"]
  /\ UNCHANGED <<workerVars, gatewayVars, instants>>

\* update_order has returned: the flow is at its end, with result still in
\* scope
FlowEnd ==
  /\ main.pc = "update"
  /\ Return(MainThread)
  /\ main' = [main EXCEPT !.pc = "end"]
  /\ UNCHANGED <<workerVars, gatewayVars, instants>>

\* result goes out of scope
FlowLeave ==
  /\ main.pc = "end"
  /\ GatewayReturn

NextPlace ==
  \/ FlowCreate \/ FlowStoreStep \/ FlowCreated \/ FlowPlace
  \/ FlowGatewayStep \/ FlowUpdate \/ FlowEnd \/ FlowLeave

SpecPlace == Init /\ [][NextPlace]_vars

----------------------------------------------------------------------------
(* The cancel flow of main.cpp, lines 438-466 (cancel-order) and 240-266   *)
(* (interactive), on the thread of the place-order flow.  The session runs *)
(* place-order flows and cancel flows one after the other, as the          *)
(* interactive loop does; MaxFlowCalls store calls in all.                 *)

MaxFlowCalls == 5

\* the places of main in the cancel flow
CancelPcs == {"c_get", "c_exchange", "c_cancel", "c_local", "c_update"}

\* lines 450, 459: update_order(order_id, OrderState::CANCELED)
CancelUpdate ==
  [new_state |-> "CANCELED", exchange_order_id |-> "", filled_amount |-> 0,
   error_msg |-> ""]

\* line 445: order_manager->get_order(order_id, order), with the id given
CancelGet ==
  /\ main.pc = "none" \/ InLoopOfMain
  /\ gpc = "idle"
  /\ calls + 2 <= MaxFlowCalls
  /\ \E id \in KnownIds :
       /\ GetFind(MainThread, id)
       /\ main' = [main EXCEPT !.pc = "c_get", !.order_id = id]
  /\ UNCHANGED <<workerVars, gatewayVars, instants>>

\* get_order or update_order goes on; the update names no exchange id and
\* does not come to the secondary index
CancelStoreStep ==
  /\ main.pc \in {"c_get", "c_update"}
  /\ \/ GetCopy(MainThread)
     \/ UpdateLock(MainThread)
  /\ UNCHANGED <<workerVars, gatewayVars, main, instants>>

\* lines 445-449, 453: get_order has returned; not found ends the flow, and
\* the order's exchange id decides between the exchange and the local cancel
CancelGot ==
  /\ main.pc = "c_get"
  /\ Return(MainThread)
  /\ main' = [main EXCEPT !.pc =
                IF ~ret[MainThread].ok THEN "end"
                ELSE IF ret[MainThread].order.exchange_order_id = ""
                       THEN "c_local"
                       ELSE "c_exchange"]
  /\ UNCHANGED <<workerVars, gatewayVars, instants>>

\* line 450: the order is not on the exchange and is canceled locally
CancelLocal ==
  /\ main.pc = "c_local"
  /\ UpdateFind(MainThread, main.order_id, CancelUpdate)
  /\ main' = [main EXCEPT !.pc = "c_update"]
  /\ UNCHANGED <<workerVars, gatewayVars, instants>>

\* line 455: gateway->cancel_order(order.exchange_order_id)
CancelExchange ==
  /\ main.pc = "c_exchange"
  /\ cancel_order
  /\ main' = [main EXCEPT !.pc = "c_cancel"]
  /\ UNCHANGED <<calls, gatewayFrame>>

\* cancel_order goes on
CancelGatewayStep ==
  /\ main.pc = "c_cancel"
  /\ \/ HttpBegin
     \/ Exchange
     \/ Send
     \/ Check
     \/ Finished

\* lines 457-459: the exchange has canceled, and so does update_order
CancelConfirmed ==
  /\ main.pc = "c_cancel"
  /\ gpc = "g_done"
  /\ result.success
  /\ UpdateFind(MainThread, main.order_id, CancelUpdate)
  /\ main' = [main EXCEPT !.pc = "c_update"]
  /\ UNCHANGED <<workerVars, gatewayVars, instants>>

\* lines 460-462: the cancel failed and the order is left as it is
CancelFailed ==
  /\ main.pc = "c_cancel"
  /\ gpc = "g_done"
  /\ ~result.success
  /\ main' = [main EXCEPT !.pc = "end"]
  /\ UNCHANGED <<calls, gatewayVars, gatewayFrame, logFrame>>

\* update_order has returned: the flow is at its end
CancelEnd ==
  /\ main.pc = "c_update"
  /\ Return(MainThread)
  /\ main' = [main EXCEPT !.pc = "end"]
  /\ UNCHANGED <<workerVars, gatewayVars, instants>>

NextCancel ==
  \/ NextPlace
  \/ CancelGet \/ CancelStoreStep \/ CancelGot \/ CancelLocal
  \/ CancelExchange \/ CancelGatewayStep \/ CancelConfirmed \/ CancelFailed
  \/ CancelEnd

SpecCancel == Init /\ [][NextCancel]_vars

---------------------------------------------------------------------------
(* A listing while orders are updated.  One thread creates orders and      *)
(* calls get_active_orders and get_all_orders; two more threads call       *)
(* update_order on the orders there are.  MaxListCalls calls in all.       *)

MaxListCalls == 5

ListThreads == {"t1", "t2", "t3"}
Lister == "t1"
Updaters == {"t2", "t3"}

ListOps == {"get_active_orders", "get_all_orders"}

\* the orders the store holds: those its primary index leads to
Content(h, index) == {h[index[id]].order : id \in DOMAIN index}

ListRequests ==
  {r \in Requests : r.client_order_id = NoId /\ r.side = "BUY"}

ListUpdateArgs == {a \in UpdateArgs : a.new_state \in {"OPEN", "FILLED"}}

\* the store with three threads, none in a call
InitList ==
  /\ heap = <<>>
  /\ orders_by_client_id_ = EmptyMap
  /\ exchange_id_to_client_id_ = EmptyMap
  /\ map_mutex_ = NoThread
  /\ order_counter_ = 0
  /\ update_callbacks_ = <<>>
  /\ cb_log = <<>>
  /\ write_queue_ = <<>>
  /\ db_dropped_count_ = 0
  /\ message_queue_ = <<>>
  /\ log_dropped_count_ = 0
  /\ pc = [t \in ListThreads |-> "idle"]
  /\ call = [t \in ListThreads |-> NoCall]
  /\ entry = [t \in ListThreads |-> NoEntry]
  /\ todo = [t \in ListThreads |-> {}]
  /\ quiet = [t \in ListThreads |-> FALSE]
  /\ ret = [t \in ListThreads |-> NoRet]
  /\ calls = 0
  /\ instants = [t \in ListThreads |-> {}]
  /\ worker = "DBWriter"
  /\ InitWorker
  /\ InitGateway

\* a call on one of the three threads
ListCall ==
  \/ \E request \in ListRequests : CreateOrder(Lister, request)
  \/ get_active_orders(Lister)
  \/ get_all_orders(Lister)
  \/ \E t \in Updaters, id \in DOMAIN orders_by_client_id_,
        a \in ListUpdateArgs : UpdateFind(t, id, a)

\* the method running on thread t goes on, or returns
ListStep(t) ==
  \/ CreateInsert(t)
  \/ CreatePublish(t)
  \/ UpdateLock(t)
  \/ UpdateIndex(t)
  \/ ListNext(t)
  \/ ListEnd(t)
  \/ Return(t)

\* the contents seen since the call began, the one after this step included,
\* for each thread that is in get_active_orders or get_all_orders
Instants ==
  [t \in DOMAIN pc |->
     IF call'[t].op \in ListOps
       THEN (IF call[t].op \in ListOps THEN instants[t] ELSE {})
              \cup {Content(heap', orders_by_client_id_')}
       ELSE {}]

NextList ==
  /\ \/ calls < MaxListCalls /\ ListCall
     \/ \E t \in ListThreads : ListStep(t)
  /\ instants' = Instants
  /\ UNCHANGED <<workerVars, gatewayVars, main>>

SpecList == InitList /\ [][NextList]_vars

---------------------------------------------------------------------------
(* Properties *)

\* the order the primary index holds under a client order id
StoredOrder(id) == heap[orders_by_client_id_[id]].order

\* thread t is in update_order and takes its step
UpdateStep(t) == pc[t] \in {"u_lock", "u_index"} /\ pc'[t] # pc[t]

\* C1: create_order called with a client order id that is not in the store
\* goes on to insert; when it has inserted, the id is not empty and is the
\* request's when the request has one, and the store holds under that id an
\* order that get_order can copy, with that client id, the request's fields,
\* state PENDING, no exchange id and filled amount 0; create_order then
\* returns that id.
C1_CreateThenGet ==
  [][\A t \in Threads :
       /\ (pc[t] = "idle" /\ call'[t].op = "create_order"
             /\ call'[t].id \notin DOMAIN orders_by_client_id_)
          => pc'[t] = "c_insert"
       /\ (pc[t] = "c_insert" /\ pc'[t] = "c_publish")
          => LET id == call[t].id
                 request == call[t].request
             IN /\ id # NoId
                /\ request.client_order_id # NoId
                     => id = request.client_order_id
                /\ id \in DOMAIN orders_by_client_id_'
                /\ LET e == heap'[orders_by_client_id_'[id]]
                   IN /\ e.live
                      /\ e.mutex = NoThread
                      /\ e.order.client_order_id = id
                      /\ e.order.request = request
                      /\ e.order.state = "PENDING"
                      /\ e.order.exchange_order_id = ""
                      /\ e.order.filled_amount = 0
       /\ (pc[t] = "c_publish" /\ pc'[t] = "done")
          => ret'[t].id = call[t].id
    ]_vars

\* a create_order without a client id has returned, and the store holds the
\* order it built under the returned id
C1_Witness ==
  \E t \in Threads :
    /\ pc[t] = "done"
    /\ call[t].op = "create_order"
    /\ call[t].request.client_order_id = NoId
    /\ ret[t].id # NoId
    /\ ret[t].id \in DOMAIN orders_by_client_id_
    /\ StoredOrder(ret[t].id).request = call[t].request
    /\ StoredOrder(ret[t].id).state = "PENDING"

\* C2: create_order called with an explicit client order id that is in the
\* primary index returns the empty id in that step, and the step changes
\* neither the entries, nor the two indices, nor the persistence queue (no
\* write is enqueued or counted as dropped), nor what the callbacks have
\* been invoked with.
C2_DuplicateCreateFails ==
  [][\A t \in Threads :
       (pc[t] = "idle" /\ call'[t].op = "create_order"
          /\ call'[t].request.client_order_id # NoId
          /\ call'[t].request.client_order_id \in DOMAIN orders_by_client_id_)
       => /\ pc'[t] = "done"
          /\ ret'[t].id = NoId
          /\ UNCHANGED <<heap, orders_by_client_id_, exchange_id_to_client_id_,
                         write_queue_, db_dropped_count_, cb_log>>
    ]_vars

\* a create_order with the id of a stored order has failed, with a callback
\* registered
C2_Witness ==
  \E t \in Threads :
    /\ pc[t] = "done"
    /\ call[t].op = "create_order"
    /\ call[t].request.client_order_id \in DOMAIN orders_by_client_id_
    /\ ret[t].id = NoId
    /\ Len(update_callbacks_) > 0

\* C3: no step replaces, resets or removes the entry the primary index holds
\* for a client order id: the id stays in the index with the same entry, the
\* entry is not destroyed, and a create_order's insertion leaves its order
\* as it was; and no two create_order calls have both returned the same id.
C3_CreateIsAtomic ==
  [][/\ \A id \in DOMAIN orders_by_client_id_ :
          /\ id \in DOMAIN orders_by_client_id_'
          /\ orders_by_client_id_'[id] = orders_by_client_id_[id]
          /\ heap'[orders_by_client_id_[id]].live
          /\ (\E t \in Threads : pc[t] = "c_insert" /\ pc'[t] = "c_publish")
               => heap'[orders_by_client_id_[id]].order = StoredOrder(id)
     /\ \A t, u \in Threads :
          (/\ t # u
           /\ pc'[t] = "done" /\ call'[t].op = "create_order"
           /\ pc'[u] = "done" /\ call'[u].op = "create_order"
           /\ ret'[t].id # NoId /\ ret'[u].id # NoId)
          => ret'[t].id # ret'[u].id
    ]_vars

\* the set of generated client order ids in the primary index
GeneratedIds == {id \in DOMAIN orders_by_client_id_ : Len(id) = 3}

\* the create_order calls without a client id that have not inserted yet
GeneratingThreads ==
  {t \in Threads : pc[t] = "c_insert" /\ call[t].request.client_order_id = NoId}

\* C4: every create_order without a client id stores an order under an id of
\* its own: the generated ids in the store and the calls still to insert are
\* as many as the ids generated, and each such call returns a stored id;
\* get_all_orders, its loop finished, has one order for each stored id, so
\* as many as ids were generated when no call is still to insert and no
\* order has an explicit id.
C4_ConcurrentCreatesAllStored ==
  /\ Cardinality(GeneratedIds) + Cardinality(GeneratingThreads)
       = order_counter_
  /\ \A t \in Threads :
       (pc[t] = "done" /\ call[t].op = "create_order"
          /\ call[t].request.client_order_id = NoId)
       => ret[t].id \in GeneratedIds
  /\ \A t \in Threads :
       (pc[t] = "l_loop" /\ call[t].op = "get_all_orders" /\ todo[t] = {})
       => /\ Len(ret[t].orders) = Cardinality(DOMAIN orders_by_client_id_)
          /\ {ret[t].orders[i].client_order_id : i \in 1..Len(ret[t].orders)}
               = DOMAIN orders_by_client_id_
          /\ (GeneratingThreads = {}
                /\ GeneratedIds = DOMAIN orders_by_client_id_)
             => Len(ret[t].orders) = order_counter_

\* two orders were created without a client id and get_all_orders, its loop
\* finished, has both
C4_Witness ==
  \E t \in Threads :
    /\ pc[t] = "l_loop"
    /\ call[t].op = "get_all_orders"
    /\ todo[t] = {}
    /\ order_counter_ = 2
    /\ Len(ret[t].orders) = 2

\* C5: no step of update_order changes an exchange id that is not empty, in
\* any entry; and an update_order on an order that has an exchange id, with
\* or without an exchange id of its own, returns true in that step, having
\* set the state, the filled amount when its argument is positive and the
\* error message when its argument is not empty.
C5_ExchangeIdFirstWriteWins ==
  [][\A t \in Threads :
       UpdateStep(t) =>
         /\ \A a \in 1..Len(heap) :
              heap[a].order.exchange_order_id # ""
              => heap'[a].order.exchange_order_id
                   = heap[a].order.exchange_order_id
         /\ LET before == heap[entry[t]].order
                after == heap'[entry[t]].order
            IN (pc[t] = "u_lock" /\ before.exchange_order_id # "")
               => /\ pc'[t] = "done"
                  /\ ret'[t].ok
                  /\ after.state = call[t].new_state
                  /\ after.filled_amount =
                       IF call[t].filled_amount > 0
                         THEN call[t].filled_amount
                         ELSE before.filled_amount
                  /\ after.error_message =
                       IF call[t].error_msg # "" THEN call[t].error_msg
                                                 ELSE before.error_message
    ]_vars

\* an update_order that carried an exchange id has returned true and set
\* the state of an order that keeps another exchange id
C5_Witness ==
  \E t \in Threads :
    /\ pc[t] = "done"
    /\ call[t].op = "update_order"
    /\ ret[t].ok
    /\ call[t].exchange_order_id # ""
    /\ heap[entry[t]].order.exchange_order_id
         \notin {"", call[t].exchange_order_id}
    /\ heap[entry[t]].order.state = call[t].new_state

\* C6: no step changes the client id the secondary index holds for an
\* exchange id, and no two orders in the store have the same exchange id.
C6_ExchangeIdMapsToOneOrder ==
  [][/\ \A e \in DOMAIN exchange_id_to_client_id_ :
          /\ e \in DOMAIN exchange_id_to_client_id_'
          /\ exchange_id_to_client_id_'[e] = exchange_id_to_client_id_[e]
     /\ \A id1, id2 \in DOMAIN orders_by_client_id_' :
          LET e1 == heap'[orders_by_client_id_'[id1]].order.exchange_order_id
              e2 == heap'[orders_by_client_id_'[id2]].order.exchange_order_id
          IN (id1 # id2 /\ e1 # "") => e1 # e2
    ]_vars

\* C7: no step of update_order makes the filled amount of the order it
\* updates smaller.
C7_FilledAmountNonDecreasing ==
  [][\A t \in Threads :
       UpdateStep(t)
       => heap'[entry[t]].order.filled_amount
            >= heap[entry[t]].order.filled_amount
    ]_vars

\* C8: the step in which update_order returns leaves the order's filled
\* amount as it was when the filled-amount argument is zero or negative and
\* makes it the argument when the argument is positive; the step before it,
\* when there is one, leaves the filled amount as it was.
C8_FilledAmountArgument ==
  [][\A t \in Threads :
       UpdateStep(t) =>
         LET before == heap[entry[t]].order.filled_amount
             after == heap'[entry[t]].order.filled_amount
         IN /\ pc'[t] # "done" => after = before
            /\ (pc'[t] = "done" /\ call[t].filled_amount <= 0)
                 => after = before
            /\ (pc'[t] = "done" /\ call[t].filled_amount > 0)
                 => after = call[t].filled_amount
    ]_vars

\* an update_order with a negative filled-amount argument has returned true
\* on an order whose filled amount is positive
C8_Witness ==
  \E t \in Threads :
    /\ pc[t] = "done"
    /\ call[t].op = "update_order"
    /\ ret[t].ok
    /\ call[t].filled_amount < 0
    /\ heap[entry[t]].order.filled_amount > 0

\* C9: get_active_orders that took map_mutex_ with no create_order or
\* update_order in flight has, its loop finished, exactly the stored orders
\* whose state is OPEN or PARTIAL, each once.
C9_ListActiveIsExact ==
  \A t \in Threads :
    (pc[t] = "l_loop" /\ call[t].op = "get_active_orders" /\ todo[t] = {}
       /\ quiet[t])
    => LET active == {id \in DOMAIN orders_by_client_id_ :
                        StoredOrder(id).state \in {"OPEN", "PARTIAL"}}
       IN /\ Len(ret[t].orders) = Cardinality(active)
          /\ \A id \in active :
               \E i \in 1..Len(ret[t].orders) :
                 ret[t].orders[i] = StoredOrder(id)
          /\ \A i \in 1..Len(ret[t].orders) :
               ret[t].orders[i].state \in {"OPEN", "PARTIAL"}

\* get_active_orders, called with no mutation in flight, has its loop
\* finished and holds an order
C9_Witness ==
  \E t \in Threads :
    /\ pc[t] = "l_loop"
    /\ call[t].op = "get_active_orders"
    /\ todo[t] = {}
    /\ quiet[t]
    /\ Len(ret[t].orders) > 0

\* C10: update_order called with a client order id that is not in the
\* primary index returns false in that step, and the step changes neither
\* the entries, nor the two indices, nor the persistence queue, nor what the
\* callbacks have been invoked with.
C10_UpdateUnknownId ==
  [][\A t \in Threads :
       (pc[t] = "idle" /\ call'[t].op = "update_order"
          /\ call'[t].id \notin DOMAIN orders_by_client_id_)
       => /\ pc'[t] = "done"
          /\ ~ret'[t].ok
          /\ UNCHANGED <<heap, orders_by_client_id_, exchange_id_to_client_id_,
                         write_queue_, db_dropped_count_, cb_log>>
    ]_vars

\* an update_order of an id that is not in the store has returned false,
\* with a callback registered and an order in the store
C10_Witness ==
  \E t \in Threads :
    /\ pc[t] = "done"
    /\ call[t].op = "update_order"
    /\ call[t].id \notin DOMAIN orders_by_client_id_
    /\ ~ret[t].ok
    /\ Len(update_callbacks_) > 0

\* C11: mark_for_cancel returns false at once for a client order id that is
\* not in the primary index; otherwise it returns true exactly when the
\* state of the order it copies is OPEN or PARTIAL; and none of its steps
\* changes an entry, an index or the persistence queue or invokes a callback.
C11_MarkForCancelIsPure ==
  [][\A t \in Threads :
       /\ (pc[t] = "idle" /\ call'[t].op = "mark_for_cancel")
          => /\ UNCHANGED <<heap, orders_by_client_id_,
                            exchange_id_to_client_id_, write_queue_,
                            db_dropped_count_, cb_log>>
             /\ call'[t].id \notin DOMAIN orders_by_client_id_
                  => (pc'[t] = "done" /\ ~ret'[t].ok)
             /\ call'[t].id \in DOMAIN orders_by_client_id_
                  => pc'[t] = "g_copy"
       /\ (call[t].op = "mark_for_cancel" /\ pc[t] = "g_copy"
             /\ pc'[t] # "g_copy")
          => /\ UNCHANGED <<heap, orders_by_client_id_,
                            exchange_id_to_client_id_, write_queue_,
                            db_dropped_count_, cb_log>>
             /\ pc'[t] = "done"
             /\ ret'[t].ok
                  <=> heap[entry[t]].order.state \in {"OPEN", "PARTIAL"}
    ]_vars

\* mark_for_cancel has returned true for an order whose state is OPEN or
\* PARTIAL, with a callback registered
C11_Witness ==
  \E t \in Threads :
    /\ pc[t] = "done"
    /\ call[t].op = "mark_for_cancel"
    /\ ret[t].ok
    /\ call[t].id \in DOMAIN orders_by_client_id_
    /\ StoredOrder(call[t].id).state \in {"OPEN", "PARTIAL"}
    /\ Len(update_callbacks_) > 0

\* C12: no step of update_order changes the state, the filled amount, the
\* exchange id or the error message of an order whose state is FILLED,
\* CANCELED or REJECTED.
C12_TerminalIsImmutable ==
  [][\A t \in Threads :
       (UpdateStep(t)
          /\ heap[entry[t]].order.state \in {"FILLED", "CANCELED", "REJECTED"})
       => heap'[entry[t]].order = heap[entry[t]].order
    ]_vars

\* the snapshots the registered callbacks are invoked with, in registration
\* order, for one mutation
Notified(order) ==
  [i \in 1..Len(update_callbacks_) |-> <<update_callbacks_[i], order>>]

\* C13: the step in which create_order returns an id invokes every
\* registered callback once, in registration order, with the order as
\* create_order built it; the step in which update_order returns true
\* invokes them so with the order as the update left it; no other step
\* invokes a callback (a failed create_order or update_order among them).
C13_CallbacksOncePerMutation ==
  [][\A t \in Threads :
       /\ (pc[t] = "c_publish" /\ pc'[t] = "done")
          => /\ ret'[t].id = call[t].id
             /\ cb_log' = cb_log \o
                  Notified([client_order_id |-> call[t].id,
                            exchange_order_id |-> "",
                            request |-> call[t].request,
                            state |-> "PENDING",
                            filled_amount |-> 0,
                            error_message |-> ""])
       /\ (UpdateStep(t) /\ pc'[t] = "done")
          => /\ ret'[t].ok
             /\ cb_log' = cb_log \o Notified(heap'[entry[t]].order)
       /\ (\A u \in Threads :
             /\ ~(pc[u] = "c_publish" /\ pc'[u] = "done")
             /\ ~(UpdateStep(u) /\ pc'[u] = "done"))
          => cb_log' = cb_log
    ]_vars

\* two different callbacks are registered and a create_order or update_order
\* that has returned invoked the first, then the second
C13_Witness ==
  \E t \in Threads :
    /\ pc[t] = "done"
    /\ call[t].op \in {"create_order", "update_order"}
    /\ Len(update_callbacks_) = 2
    /\ update_callbacks_[1] # update_callbacks_[2]
    /\ Len(cb_log) = 2
    /\ cb_log[1][1] = update_callbacks_[1]
    /\ cb_log[2][1] = update_callbacks_[2]
    /\ cb_log[1][2] = cb_log[2][2]

\* C14: no state is reached in which a thread in update_order holds an
\* entry's mutex and waits for map_mutex_ while the thread that holds
\* map_mutex_, in get_active_orders or get_all_orders, has that entry still
\* to copy and so will wait for its mutex.
C14_NoDeadlock ==
  \A t, u \in Threads :
    ~(/\ pc[t] = "u_index"
      /\ heap[entry[t]].mutex = t
      /\ pc[u] = "l_loop"
      /\ map_mutex_ = u
      /\ \E id \in todo[u] : orders_by_client_id_[id] = entry[t])

\* the snapshots in DBWriter's queue that are of the client order id
WritesOf(id) ==
  SelectSeq(write_queue_, LAMBDA order : order.client_order_id = id)

\* C15: when no persistence write was dropped and no create_order or
\* update_order is in flight, the last snapshot queued for a client order
\* id is the order the store holds under that id.
C15_LastWriteIsStoredOrder ==
  (db_dropped_count_ = 0 /\ \A t \in Threads : ~Mutating(t))
  => \A id \in DOMAIN orders_by_client_id_ :
       WritesOf(id) # <<>>
       => WritesOf(id)[Len(WritesOf(id))] = StoredOrder(id)

\* C16: a worker's queue never holds more items than its capacity; a submit
\* (write_order, log) that finds the queue at capacity leaves the queue as
\* it is, adds one to the drop counter and returns false; a submit that
\* finds it below capacity appends its item, leaves the drop counter as it
\* is and returns true.
C16_QueueIsBounded ==
  [][/\ Len(Queue) <= Capacity
     /\ Len(Queue') <= Capacity
     /\ submitted' = submitted + 1
        => \E t \in Threads :
             /\ pc[t] = "idle"
             /\ IF Len(Queue) >= Capacity
                  THEN /\ Queue' = Queue
                       /\ dropped_count_' = dropped_count_ + 1
                       /\ pc'[t] = "done"
                       /\ ret'[t].ok = FALSE
                  ELSE /\ Queue' = Append(Queue, Item(submitted))
                       /\ dropped_count_' = dropped_count_
                       /\ pc'[t] = "s_notify"
     /\ \A t \in Threads :
          pc[t] = "s_notify" /\ pc'[t] = "done" => ret'[t].ok = TRUE
    ]_vars

\* a submit was accepted and returned true, and another found the queue at
\* capacity, was dropped and returned false
C16_Witness ==
  /\ Len(Queue) = Capacity
  /\ dropped_count_ = 1
  /\ \E t, u \in Threads :
       /\ pc[t] = "done" /\ call[t].op \in {"write_order", "log"}
       /\ ~ret[t].ok
       /\ pc[u] = "done" /\ call[u].op \in {"write_order", "log"}
       /\ ret[u].ok

\* C17: whenever a stop has returned and no submit is in progress, the
\* number of items processed plus the drop counter is the number of items
\* submitted, and no item was processed twice.
C17_EverySubmitAccounted ==
  (owner \in {"stop_done", "stop_noop"}
     /\ \A t \in Threads : pc[t] # "s_notify")
  => /\ Len(processed) + dropped_count_ = submitted
     /\ \A i, j \in 1..Len(processed) :
          processed[i] = processed[j] => i = j

\* C18: when a stop called on a running worker has returned, every item
\* that had been accepted when stop was called has been processed, and the
\* consumer thread has exited and was joined.
C18_StopProcessesPending ==
  (owner = "stop_done" /\ at_stop.called)
  => /\ at_stop.items \subseteq {processed[i] : i \in 1..Len(processed)}
     /\ wpc = "none"
     /\ hand = NoItem
     /\ consumers = 0

\* a stop has returned that was called with more than one item accepted and
\* not yet processed
C18_Witness ==
  /\ owner = "stop_done"
  /\ at_stop.called
  /\ Cardinality(at_stop.pending) > 1

\* C19: under fair scheduling, a stop that has cleared running_ returns.
C19_StopTerminates ==
  (owner = "stop_notify") ~> (owner = "stop_done")

\* C20: a start that finds the worker running and a stop that finds it
\* stopped change neither running_, the queue, the drop counter, the
\* consumer thread nor the number of consumer threads; a worker never has
\* more than one consumer thread.
C20_StartStopIdempotent ==
  [][/\ consumers <= 1
     /\ consumers' <= 1
     /\ ( \/ owner = "idle" /\ owner' \in {"start_done", "start_noop"}
                            /\ running_
          \/ owner = "idle" /\ owner' \in {"stop_notify", "stop_noop"}
                            /\ ~running_ )
        => /\ owner' \in {"start_noop", "stop_noop"}
           /\ UNCHANGED <<running_, sinkVars, wpc, hand, processed,
                          consumers, queue_mutex_>>
    ]_vars

\* a start has found the worker running, with its consumer thread alive and
\* an item queued
C20_Witness ==
  /\ owner = "start_noop"
  /\ running_
  /\ consumers = 1
  /\ Queue # <<>>

\* the status is one the claims call retryable: 429 or 5xx
Retryable(status) == status = 429 \/ (status >= 500 /\ status < 600)

\* execute_with_retry has returned
Returned == gpc \in {"g_ret", "g_done"}

\* C21: when the transport has answered the first j attempts, j not above
\* max_retries_, with 429 or 5xx, another attempt follows; and when it then
\* answers 2xx, execute_with_retry returns that response, a success, after
\* j + 1 attempts and j sleeps, one after each of the first j attempts.
C21_RetryThenSuccess ==
  LET n == Len(trace) IN
    /\ (Returned /\ n >= 1 /\ Is2xx(trace[n].http_status))
       => /\ response = trace[n]
          /\ response.success
          /\ \A i \in 1..(n - 1) : Retryable(trace[i].http_status)
          /\ n - 1 <= max_retries_
          /\ delays = [i \in 1..(n - 1) |-> i - 1]
    /\ (Returned /\ n >= 1 /\ Retryable(trace[n].http_status))
       => n = max_retries_ + 1

\* 503, 503, 200: a success after three attempts and two sleeps
C21_Witness ==
  /\ gpc = "g_done"
  /\ Len(trace) = 3
  /\ trace[1].http_status = 503
  /\ trace[2].http_status = 503
  /\ trace[3].http_status = 200
  /\ response.success
  /\ Len(delays) = 2

\* C22: when the transport answers the first attempt with an HTTP status
\* that is neither 2xx, nor 429, nor 5xx, no sleep and no second attempt
\* follow, and execute_with_retry returns that response, a failure.
C22_NonRetryableReturnsAtOnce ==
  LET n == Len(trace) IN
    (/\ n >= 1
     /\ trace[1].http_status # 0
     /\ ~Is2xx(trace[1].http_status)
     /\ ~Retryable(trace[1].http_status))
    => /\ n = 1
       /\ delays = <<>>
       /\ attempt = 0
       /\ gpc \in {"g_check", "g_ret", "g_done"}
       /\ Returned => response = trace[1] /\ ~response.success

\* 404 on the first attempt: returned, a failure, with no sleep
C22_Witness ==
  /\ gpc = "g_done"
  /\ Len(trace) = 1
  /\ trace[1].http_status = 404
  /\ ~result.success
  /\ result.http_status = 404
  /\ delays = <<>>

\* C23: execute_with_retry never makes more than max_retries_ + 1 attempts;
\* when the transport has answered every attempt with 429 or 5xx it returns
\* after max_retries_ + 1 attempts and max_retries_ sleeps, none of them
\* after the last attempt, and returns the last response as it came.
C23_RetriesAreBounded ==
  LET n == Len(trace) IN
    /\ n <= max_retries_ + 1
    /\ Len(delays) <= max_retries_
    /\ (Returned /\ n >= 1
          /\ \A i \in 1..n : Retryable(trace[i].http_status))
       => /\ n = max_retries_ + 1
          /\ delays = [i \in 1..max_retries_ |-> i - 1]
          /\ response = trace[n]
          /\ ~response.success

\* four attempts, each answered 429 or 503, the last two differently
C23_Witness ==
  /\ gpc = "g_done"
  /\ Len(trace) = max_retries_ + 1
  /\ \A i \in 1..Len(trace) : Retryable(trace[i].http_status)
  /\ trace[max_retries_].http_status = 429
  /\ result.http_status = 503
  /\ result.error_message = "err2"

\* C24: when an attempt has failed in the transport (status 0) and attempts
\* remain, execute_with_retry does not return before another attempt.
C24_TransportFailureIsRetried ==
  LET n == Len(trace) IN
    (Returned /\ n >= 1 /\ trace[n].http_status = 0)
    => n = max_retries_ + 1

\* C25: for every attempt number k from 0 to max_retries_, base_backoff_ms_
\* times 2^k is an int, and the delay d computed for k satisfies
\* 0.75 * base_backoff_ms_ * 2^k <= d <= 1.25 * base_backoff_ms_ * 2^k
\* (compared four times over, in whole numbers), so d is not negative.
C25_BackoffWithinJitter ==
  /\ base_backoff_ms_ * (2^attempt) <= INT_MAX
  /\ gpc = "b_done"
     => /\ 4 * backoff_ms >= 3 * base_backoff_ms_ * (2^attempt)
        /\ 4 * backoff_ms <= 5 * base_backoff_ms_ * (2^attempt)
        /\ backoff_ms >= 0

\* the longest delay of the last attempt number: 1.25 * 100 * 2^3
C25_Witness ==
  /\ gpc = "b_done"
  /\ attempt = max_retries_
  /\ backoff_ms = 1000

\* a POST to a private endpoint begins and get_access_token reads the clock
PrivateRequest ==
  /\ gpc = "g_request"
  /\ gpc' # "g_request"
  /\ Method(endpoint) = "POST"
  /\ IsPrivate(endpoint)

\* C26: after a credential exchange that was granted a token with a
\* lifetime of L seconds, by a call that read the clock at t, every private
\* request that begins before t + (L * 9) / 10 (in whole seconds) takes the
\* token of that exchange and makes no credential exchange, and a private
\* request that begins at or after that instant goes to a credential
\* exchange before it is sent.  Credential exchanges are made nowhere else.
C26_TokenIsCached ==
  [][/\ (PrivateRequest /\ granted # NoGrant)
        => IF clock < granted.at + ((granted.expires_in * 9) \div 10)
             THEN /\ gpc' = "g_send"
                  /\ bearer' = granted.access_token
                  /\ exchanges' = exchanges
                  /\ granted' = granted
             ELSE /\ gpc' = "g_auth"
                  /\ exchanges' = exchanges
     /\ exchanges' > exchanges => gpc = "g_auth" /\ gpc' = "g_send"
     /\ (gpc = "g_auth" /\ gpc' = "g_send") => exchanges' = exchanges + 1
    ]_vars

\* the first request of a second call is sent with the token granted to the
\* first call a second earlier, and no credential exchange was made for it
C26_Witness ==
  /\ calls = 2
  /\ gpc = "g_send"
  /\ attempt = 0
  /\ exchanges = 0
  /\ bearer = granted.access_token
  /\ bearer # ""
  /\ clock = granted.at + 1

\* C27: when the credential exchange made for a private request has failed
\* (no token: bearer is empty), the request is not sent, and the call
\* returns a result with success = false.
C27_RefreshFailurePropagates ==
  /\ ~(gpc = "g_send" /\ IsPrivate(endpoint) /\ bearer = "")
  /\ (gpc = "g_done" /\ refused) => ~result.success

\* the step's log line and the step's persistence write are queued when
\* their queue has room; a full queue stays as it is and its drop counter
\* goes up by one
QueuedOrCounted(message, order) ==
  /\ IF Len(message_queue_) >= LogCapacity
       THEN /\ message_queue_' = message_queue_
            /\ log_dropped_count_' = log_dropped_count_ + 1
       ELSE /\ message_queue_' = Append(message_queue_, message)
            /\ log_dropped_count_' = log_dropped_count_
  /\ IF Len(write_queue_) >= QueueCapacity
       THEN /\ write_queue_' = write_queue_
            /\ db_dropped_count_' = db_dropped_count_ + 1
       ELSE /\ write_queue_' = Append(write_queue_, order)
            /\ db_dropped_count_' = db_dropped_count_

\* C28: whether the log queue and the persistence queue are full or not, the
\* step in which create_order publishes returns the order's id, leaves the
\* stored orders as they are and invokes every callback with the new order;
\* the step in which update_order finishes returns true, leaves the order
\* with the new state (and the filled amount and error message given) and
\* invokes every callback with it.  A full queue changes nothing but its
\* drop counter.
C28_DropsAreNotPropagated ==
  [][\A t \in Threads :
       /\ (pc[t] = "c_publish" /\ pc'[t] = "done")
          => LET order == [client_order_id |-> call[t].id,
                           exchange_order_id |-> "",
                           request |-> call[t].request,
                           state |-> "PENDING",
                           filled_amount |-> 0,
                           error_message |-> ""]
             IN /\ ret'[t].id = call[t].id
                /\ UNCHANGED storeVars
                /\ cb_log' = cb_log \o Notified(order)
                /\ QueuedOrCounted(<<"INFO", "Created order: ", call[t].id>>,
                                   order)
       /\ (UpdateStep(t) /\ pc'[t] = "done")
          => LET order == heap'[entry[t]].order
             IN /\ ret'[t].ok
                /\ order.state = call[t].new_state
                /\ call[t].filled_amount > 0
                   => order.filled_amount = call[t].filled_amount
                /\ call[t].error_msg # ""
                   => order.error_message = call[t].error_msg
                /\ cb_log' = cb_log \o Notified(order)
                /\ QueuedOrCounted(<<"INFO", "Updated order: ", call[t].id>>,
                                   order)
    ]_vars

\* an update_order has returned true and invoked the callback although its
\* log line and its persistence write were both dropped
C28_Witness ==
  \E t \in Threads :
    /\ pc[t] = "done"
    /\ call[t].op = "update_order"
    /\ ret[t].ok
    /\ db_dropped_count_ = 1
    /\ Len(write_queue_) = QueueCapacity
    /\ log_dropped_count_ >= 1
    /\ Len(update_callbacks_) = 1
    /\ Len(cb_log) = QueueCapacity + 1
    /\ cb_log[Len(cb_log)][2] = StoredOrder(call[t].id)
    /\ cb_log[Len(cb_log)][2] # write_queue_[Len(write_queue_)]

\* C30: a step of update_order called with an empty error message leaves
\* the order's error message as it is; a step of update_order that changes
\* the error message sets it to the non-empty message it was called with.
C30_ErrorMessageIsSticky ==
  [][\A t \in Threads :
       UpdateStep(t)
       => LET before == heap[entry[t]].order.error_message
              after == heap'[entry[t]].order.error_message
          IN /\ call[t].error_msg = "" => after = before
             /\ after # before
                => call[t].error_msg # "" /\ after = call[t].error_msg
    ]_vars

\* an update_order called with an empty error message has returned true and
\* the order still has the error message an earlier update gave it
C30_Witness ==
  \E t \in Threads :
    /\ pc[t] = "done"
    /\ call[t].op = "update_order"
    /\ call[t].error_msg = ""
    /\ ret[t].ok
    /\ StoredOrder(call[t].id).error_message \in ErrorMsgs
    /\ StoredOrder(call[t].id).state = call[t].new_state
    /\ StoredOrder(call[t].id).state
         \in {"OPEN", "PARTIAL", "FILLED", "PENDING"}

\* the flow has an order that create_order created
FlowOrder ==
  main.order_id # NoId /\ main.pc \in {"place", "placing", "update", "end"}

\* update_order has returned and the result of place_order is in scope
FlowAtEnd == main.pc = "end" /\ gpc = "g_done"

\* C29: at the end of the place-order flow, an order that was created is in
\* the store, OPEN with the exchange id of the gateway's result when the
\* result is a success, REJECTED with the error message of the result when
\* it is a failure, and otherwise as create_order made it; and from its
\* creation on it is in the store.
C29_PlaceOrderFlow ==
  FlowOrder
  => /\ main.order_id \in DOMAIN orders_by_client_id_
     /\ FlowAtEnd
        => StoredOrder(main.order_id)
             = IF result.success
                 THEN [Order(main.order_id, main.request)
                         EXCEPT !.state = "OPEN",
                                !.exchange_order_id = result.exchange_order_id]
                 ELSE [Order(main.order_id, main.request)
                         EXCEPT !.state = "REJECTED",
                                !.error_message = result.error_message]

\* the flow has ended with the exchange's refusal, after the gateway has
\* tried again, and the order is REJECTED with the refusal's message
C29_Witness ==
  /\ FlowOrder
  /\ FlowAtEnd
  /\ ~result.success
  /\ result.error_message \in ErrorMsgs
  /\ delays # <<>>
  /\ StoredOrder(main.order_id).state = "REJECTED"
  /\ StoredOrder(main.order_id).error_message = result.error_message

\* thread t holds the mutex of an entry
HoldsEntryMutex(t) == \E a \in 1..Len(heap) : heap[a].mutex = t

\* thread t takes the step in which it locks map_mutex_: the duplicate check
\* and the insert of create_order, the lookups of update_order, get_order
\* and get_order_by_exchange_id, the secondary index of update_order, the
\* loop of get_active_orders and get_all_orders
TakesMapMutex(t) ==
  /\ pc'[t] # pc[t]
  /\ \/ pc[t] \in {"c_insert", "u_index", "x_get"}
     \/ pc[t] = "idle" /\ call'[t].op # "register_update_callback"

\* C31: no thread locks map_mutex_ while it holds the mutex of an entry.
C31_LockOrder ==
  [][\A t \in Threads : TakesMapMutex(t) => ~HoldsEntryMutex(t)]_vars

\* thread u is in update_order between its field writes: it holds the
\* entry's mutex, state and exchange id are set, the rest is to come
MidUpdate(u) == pc[u] = "u_index"

\* C32: a step of update_order on an order is not taken while another update
\* of that order is between its field writes; the snapshot the finishing
\* step queues for persistence and hands to the callbacks is the order the
\* store holds under that id after the step; and get_order does not copy an
\* order while an update of it is between its field writes.
C32_UpdatesAreSerialized ==
  [][\A t \in Threads :
       /\ UpdateStep(t)
          => \A u \in Threads \ {t} :
               ~(MidUpdate(u) /\ call[u].id = call[t].id)
       /\ (UpdateStep(t) /\ pc'[t] = "done")
          => /\ call[t].id \in DOMAIN orders_by_client_id_'
             /\ heap'[entry[t]].order
                  = heap'[orders_by_client_id_'[call[t].id]].order
       /\ (pc[t] = "g_copy" /\ pc'[t] = "done")
          => \A u \in Threads \ {t} :
               ~(MidUpdate(u) /\ call[u].id = call[t].id)
    ]_vars

\* the orders in the sequence a listing returns
Returned_orders(t) == {ret[t].orders[i] : i \in 1..Len(ret[t].orders)}

\* C33: when get_active_orders or get_all_orders returns, there is an
\* instant between its call and its return at which the store held exactly
\* the orders returned (for get_active_orders: at which its active orders
\* were exactly these), each with the fields returned.
C33_ListIsPointInTime ==
  [][\A t \in DOMAIN pc :
       (pc[t] = "done" /\ pc'[t] = "idle" /\ call[t].op \in ListOps)
       => \E c \in instants[t] :
            /\ Returned_orders(t) = {o \in c : Listed(call[t].op, o)}
            /\ Len(ret[t].orders) = Cardinality(Returned_orders(t))
    ]_vars

\* C34: the consumer does not hold queue_mutex_ in a step in which it
\* processes an item, in its main loop and in its final drain alike.
C34_ProcessesWithoutTheLock ==
  [][processed' # processed => queue_mutex_ # Consumer]_vars

\* C35: a request sent to a private endpoint while a valid token is cached
\* carries a bearer token; a request sent to a public endpoint carries none.
C35_PrivateRequestsCarryToken ==
  [][(gpc = "g_send" /\ gpc' = "g_check")
       => /\ (IsPrivate(endpoint) /\ TokenIsValid) => bearer # ""
          /\ ~IsPrivate(endpoint) => bearer = ""
    ]_vars

\* the item is in the worker's queue
Queued(item) == \E i \in 1..Len(Queue) : Queue[i] = item

\* the consumer has processed the item
Processed(item) == \E i \in 1..Len(processed) : processed[i] = item

\* C36: under fair scheduling, an item that is in the queue of a running
\* worker is processed, unless the worker is stopped first.
C36_AcceptedIsProcessed ==
  \A n \in 0..(MaxSubmits - 1) :
    (Queued(Item(n)) /\ running_) ~> (Processed(Item(n)) \/ ~running_)

\* a submit to a running worker has returned true, its item is queued and
\* the consumer, which was waiting, is woken
C36_Witness ==
  /\ running_
  /\ wpc = "w_woken"
  /\ Queue # <<>>
  /\ \E t \in Threads :
       pc[t] = "done" /\ call[t].op \in {"write_order", "log"} /\ ret[t].ok

\* C37: every entry of the secondary index maps an exchange id to a client
\* order id that is in the primary index, and the order stored under that
\* client order id has that exchange id.
C37_SecondaryIndexIsConsistent ==
  \A e \in DOMAIN exchange_id_to_client_id_ :
    LET c == exchange_id_to_client_id_[e]
    IN /\ c \in DOMAIN orders_by_client_id_
       /\ StoredOrder(c).exchange_order_id = e

\* the place of an item among those passed to the worker: submits take
\* queue_mutex_ one after the other, and the n-th to take it passes Item(n)
Number(item) == CHOOSE n \in 0..(MaxSubmits - 1) : Item(n) = item

\* C38: the items are processed in the order in which their submits were
\* accepted: an item processed before another was accepted before it, and
\* an item still in the consumer's hand or in the queue was accepted after
\* every item processed.
C38_ProcessedInFifoOrder ==
  /\ \A i, j \in 1..Len(processed) :
       i < j => Number(processed[i]) < Number(processed[j])
  /\ \A i \in 1..Len(processed) :
       \A item \in Pending : Number(processed[i]) < Number(item)
  /\ \A i, j \in 1..Len(Queue) : i < j => Number(Queue[i]) < Number(Queue[j])

\* a stop has returned; of three items accepted one was processed by the
\* main loop and the two that were pending at the stop after it
C38_Witness ==
  /\ owner = "stop_done"
  /\ at_stop.called
  /\ Cardinality(at_stop.pending) = 2
  /\ Len(processed) = 3
  /\ processed[1] \notin at_stop.pending
  /\ Queue = <<>>

C40_CancelLeavesTerminalOrders ==
  [][(/\ main.pc \in CancelPcs
      /\ main.order_id \in DOMAIN orders_by_client_id_
      /\ is_terminal(StoredOrder(main.order_id)))
     => /\ main.order_id \in DOMAIN orders_by_client_id_'
        /\ StoredOrder(main.order_id)'.state = StoredOrder(main.order_id).state
    ]_vars

=============================================================================
